---- MODULE Spec2Model ----
(***************************************************************************)
(* Adaptive-LOD patch pipeline of the planet renderer: the quadtree        *)
(* residency controller (planet/renderer/mod.rs), the node backing arena   *)
(* (id_arena.rs, node_backing.rs) and the thread-pool geometry provider    *)
(* (planet/async_geometry_provider.rs).                                    *)
(*                                                                         *)
(* Granularity.  The main thread's residency traversal is one step; the    *)
(* result drain that follows it takes one channel item per step, because   *)
(* workers send while the main thread drains.  A worker's dequeue is split *)
(* at every point where it reads a value the main thread may store without *)
(* holding the queue mutex (should_stop, token priorities).  A store that  *)
(* is concurrent with the worker's sort is ordered before or after it.     *)
(***************************************************************************)
EXTENDS Integers, Sequences, FiniteSets, TLC

\* ---------------------------------------------------------------- bounds
\* Number of cube faces modelled (the renderer has six).
NumFaces == 1
\* Capacity of the backing arena (2048 in planet/constants.rs).
MAX_PATCH_COUNT == 3
\* ceil(log2(0.5 * PI * radius)) of the planet description.
RadiusLog2 == 2
\* Cap on the request ids handed out by NEXT in the renderer specification.
MaxRequests == 8
\* Cap on the requests queued in the provider specification.
MaxQueued == 2
\* Largest priority value the provider specification's client stores.
MaxPrio == 2
\* Worker threads modelled in the renderer specification and in the
\* provider specification (the provider spawns three).
RenderWorkers == 1
PoolWorkers == 2

\* ------------------------------------------------------------- structure
Faces == 1..NumFaces
Child == 0..3

max_lod_level == IF RadiusLog2 - 1 > 1 THEN RadiusLog2 - 1 ELSE 1
\* split_distances.len(): one initial push plus max_lod_level pushes.
SplitLen == 1 + max_lod_level

\* A node is named by its path: <<face>> for a root, then child indices.
Level(n) == Len(n) - 1
Kid(n, c) == Append(n, c)
Root(f) == <<f>>

RECURSIVE PathsOfLen(_)
PathsOfLen(k) ==
    IF k = 1 THEN {Root(f) : f \in Faces}
    ELSE {Kid(p, c) : p \in PathsOfLen(k - 1), c \in Child}

\* Nodes the residency pass may split: lod_level < split_distances.len().
SplitNodes == UNION {PathsOfLen(k) : k \in 1..SplitLen}

Prefixes(p) == {SubSeq(p, 1, k) : k \in 1..Len(p)}

Parent(n) == SubSeq(n, 1, Len(n) - 1)

\* A camera pose, abstracted to what the traversal reads from it: the chain
\* of nodes whose bounding box is within split range (the ancestors-or-self
\* of `focus`), and which boxes of that chain intersect the frustum.  Each
\* box is computed from the node's own geometry, so a child's box may
\* intersect the frustum when its parent's does not.
Cameras ==
    UNION {{[focus |-> p, seen |-> s] : s \in SUBSET Prefixes(p)} :
              p \in SplitNodes \cup {<<>>}}

\* No traversal has run yet.
NoCam == [focus |-> <<>>, seen |-> {<<>>}]

\* No pure function has been called yet.
NoCall == [fn |-> "none"]

in_range(n, cam) == n \in Prefixes(cam.focus)
in_frustum(n, cam) == n \in cam.seen

VARIABLES
    tree,        \* faces[..].root: live node path -> Node content
    pending,     \* pending_geometry_requests: request id -> node
    counter,     \* SimpleIdArena.counter
    free,        \* SimpleIdArena.free
    next,        \* static NEXT
    prio,        \* Token.priority of every request id handed out
    queue,       \* ThreadpoolGeometryProvider.queue (request ids)
    lockHolder,  \* worker holding the queue mutex, 0 when free
    poisoned,    \* the queue mutex is poisoned
    should_stop, \* ThreadpoolGeometryProvider.should_stop
    receiverAlive, \* the channel's Receiver has not been dropped
    chan,        \* results in the channel (request ids)
    wpc,         \* position of every worker thread
    wreq,        \* the request a worker popped
    mainPc,      \* position of the main thread
    lastDrain,   \* history: what the last drain callback did
    held,        \* provider client: ids whose token the client holds
    dropped,     \* history: ids removed by a worker's retain
    poppedZero,  \* history: ids whose priority was 0 when popped
    received,    \* history: id -> times handed to the drain callback
    cancelled,   \* history: ids whose token the client set to 0
    racedStore,  \* history: a priority was stored since the retain of the
                 \* worker that is between its retain and its pop
    lastCam,     \* history: the camera of the last residency traversal
    call         \* the last call of a pure function: its arguments and result

vars == <<tree, pending, counter, free, next, prio, queue, lockHolder,
          poisoned, should_stop, receiverAlive, chan, wpc, wreq, mainPc,
          lastDrain, held, dropped, poppedZero, received, cancelled, racedStore,
          lastCam, call>>

rendererVars == <<tree, pending, counter, free>>
providerVars == <<queue, lockHolder, poisoned, should_stop, receiverAlive,
                  chan, wpc, wreq>>
provAudit == <<held, dropped, poppedZero, received, cancelled, racedStore>>
auditVars == <<provAudit, lastCam, call>>

Workers == DOMAIN wpc

Pending(id) == [kind |-> "Pending", id |-> id, node_id |-> -1]
WithGeometry(slot) == [kind |-> "WithGeometry", id |-> -1, node_id |-> slot]

\* ------------------------------------------------------------------ arena
\* Mutant: the capacity test is missing.
ArenaAcquireNoCap(a) ==
    IF Len(a.free) > 0
    THEN [id |-> a.free[Len(a.free)], counter |-> a.counter,
          free |-> SubSeq(a.free, 1, Len(a.free) - 1)]
    ELSE [id |-> a.counter, counter |-> a.counter + 1, free |-> a.free]

\* SimpleIdArena::acquire on arena a = [counter, free, capacity]; id = -1 is
\* None.
ArenaAcquire(a) ==
    IF Len(a.free) > 0
    THEN [id |-> a.free[Len(a.free)], counter |-> a.counter,
          free |-> SubSeq(a.free, 1, Len(a.free) - 1)]
    ELSE IF a.counter >= a.capacity
         THEN [id |-> -1, counter |-> a.counter, free |-> a.free]
         ELSE [id |-> a.counter, counter |-> a.counter + 1, free |-> a.free]

\* Mutant: the released id goes to the bottom of the free list.
ArenaReleaseBottom(fr, id) == <<id>> \o fr

\* SimpleIdArena::release
ArenaRelease(fr, id) == Append(fr, id)

ArenaLen(a) == a.counter - Len(a.free)

\* ----------------------------------------------------------- quadtree ops
has_children(t, n) == Kid(n, 0) \in DOMAIN t

RemoveKey(f, k) == [x \in DOMAIN f \ {k} |-> f[x]]
PutKey(f, k, v) == [x \in DOMAIN f \cup {k} |-> IF x = k THEN v ELSE f[x]]

\* The traversal threads S = [tree, pending, prio, queue, next, free,
\* notified, panicked] through the recursion.
RECURSIVE merge(_, _)
RECURSIVE remove_face(_, _)
RECURSIVE RemoveKids(_, _, _)

RemoveKids(S, n, k) ==
    IF k > 3 THEN S ELSE RemoveKids(remove_face(S, Kid(n, k)), n, k + 1)

\* Mutant: the children are dropped without being cleaned up.
merge_forget(S, n) ==
    [S EXCEPT !.tree =
        [x \in {m \in DOMAIN S.tree :
                  ~(Len(m) > Len(n) /\ SubSeq(m, 1, Len(n)) = n)} |-> S.tree[x]]]

merge(S, n) ==
    IF has_children(S.tree, n)
    THEN LET S4 == RemoveKids(S, n, 0)
         IN [S4 EXCEPT !.tree =
                [x \in DOMAIN S4.tree \ {Kid(n, c) : c \in Child} |-> S4.tree[x]]]
    ELSE S

\* Mutant: a cancelled request keeps its entry in the pending map.
remove_face_keepkey(S, n) ==
    LET S1 == merge(S, n)
        c == S1.tree[n]
    IN IF c.kind = "Pending"
       THEN [S1 EXCEPT !.prio[c.id] = 0]
       ELSE [S1 EXCEPT !.free = ArenaRelease(@, c.node_id)]

remove_face(S, n) ==
    LET S1 == merge(S, n)
        c == S1.tree[n]
    IN IF c.kind = "Pending"
       THEN [S1 EXCEPT !.prio[c.id] = 0,
                       !.pending = RemoveKey(@, c.id)]
       ELSE [S1 EXCEPT !.free = ArenaRelease(@, c.node_id)]

\* location.lod_level | 512
BitOr512(l) == IF (l \div 512) % 2 = 1 THEN l ELSE l + 512

\* ThreadpoolGeometryProvider::queue followed by the store and the map
\* insert of request_node.  A poisoned queue mutex makes queue() panic.
\* Mutant: the token keeps the priority queue() gave it.
request_node_default(S, n) ==
    IF poisoned THEN [S EXCEPT !.panicked = TRUE]
    ELSE LET id == S.next
         IN [S EXCEPT !.next = id + 1,
                      !.queue = Append(@, id),
                      !.prio = PutKey(@, id, 1),
                      !.notified = @ + 1,
                      !.tree = PutKey(@, n, Pending(id)),
                      !.pending = PutKey(@, id, n)]

request_node(S, n) ==
    IF poisoned THEN [S EXCEPT !.panicked = TRUE]
    ELSE LET id == S.next
         IN [S EXCEPT !.next = id + 1,
                      !.queue = Append(@, id),
                      !.prio = PutKey(@, id, Level(n) + 1),
                      !.notified = @ + 1,
                      !.tree = PutKey(@, n, Pending(id)),
                      !.pending = PutKey(@, id, n)]

RECURSIVE RequestKids(_, _, _)
RequestKids(S, n, k) ==
    IF k > 3 \/ S.panicked THEN S
    ELSE RequestKids(request_node(S, Kid(n, k)), n, k + 1)

RECURSIVE ensure_resident_children(_, _, _, _)
RECURSIVE EnsureKids(_, _, _, _, _)

EnsureKids(S, n, k, inf, cam) ==
    IF k > 3 THEN S
    ELSE EnsureKids(ensure_resident_children(S, Kid(n, k), inf, cam),
                    n, k + 1, inf, cam)

\* Mutant: a node that went out of range keeps its children.
ensure_children_nomerge(S, n, parent_in_frustum, cam) ==
    IF S.panicked \/ Level(n) >= SplitLen THEN S
    ELSE LET c == S.tree[n]
         IN IF c.kind = "WithGeometry"
            THEN IF ~in_range(n, cam) THEN S
                 ELSE LET S1 == IF ~has_children(S.tree, n)
                                THEN RequestKids(S, n, 0) ELSE S
                      IN IF S1.panicked THEN S1
                         ELSE EnsureKids(S1, n, 0, in_frustum(n, cam), cam)
            ELSE [S EXCEPT !.prio[c.id] =
                     IF parent_in_frustum THEN BitOr512(Level(n)) ELSE Level(n)]

\* Mutant: the priority stored for a Pending node counts levels from the
\* first level below the root.
ensure_children_rebased(S, n, parent_in_frustum, cam) ==
    IF S.panicked \/ Level(n) >= SplitLen THEN S
    ELSE LET c == S.tree[n]
         IN IF c.kind = "WithGeometry"
            THEN IF ~in_range(n, cam) THEN merge(S, n)
                 ELSE LET S1 == IF ~has_children(S.tree, n)
                                THEN RequestKids(S, n, 0) ELSE S
                      IN IF S1.panicked THEN S1
                         ELSE EnsureKids(S1, n, 0, in_frustum(n, cam), cam)
            ELSE [S EXCEPT !.prio[c.id] =
                     IF parent_in_frustum THEN BitOr512(Level(n) - 1)
                     ELSE Level(n) - 1]

ensure_resident_children(S, n, parent_in_frustum, cam) ==
    IF S.panicked \/ Level(n) >= SplitLen THEN S
    ELSE LET c == S.tree[n]
         IN IF c.kind = "WithGeometry"
            THEN IF ~in_range(n, cam) THEN merge(S, n)
                 ELSE LET S1 == IF ~has_children(S.tree, n)
                                THEN RequestKids(S, n, 0) ELSE S
                      IN IF S1.panicked THEN S1
                         ELSE EnsureKids(S1, n, 0, in_frustum(n, cam), cam)
            ELSE [S EXCEPT !.prio[c.id] =
                     IF parent_in_frustum THEN BitOr512(Level(n)) ELSE Level(n)]

RECURSIVE EnsureFaces(_, _, _)
EnsureFaces(S, f, cam) ==
    IF f > NumFaces THEN S
    ELSE EnsureFaces(ensure_resident_children(S, Root(f), TRUE, cam), f + 1, cam)

Snapshot ==
    [tree |-> tree, pending |-> pending, prio |-> prio, queue |-> queue,
     next |-> next, free |-> free, notified |-> 0, panicked |-> FALSE]


\* ------------------------------------------------------------ provider
\* queue.sort_by(priority): stable, ascending.
InsertSorted(s, x, p) ==
    LET k == Cardinality({i \in 1..Len(s) : p[s[i]] <= p[x]})
    IN SubSeq(s, 1, k) \o <<x>> \o SubSeq(s, k + 1, Len(s))

\* Mutant: the queue is left in enqueue order.
SortUnsorted(q, p) == q

RECURSIVE SortByPriority(_, _)
SortByPriority(q, p) ==
    IF q = <<>> THEN <<>>
    ELSE InsertSorted(SortByPriority(SubSeq(q, 1, Len(q) - 1), p), q[Len(q)], p)

\* Mutant: nothing is dropped.
RetainAll(q, p) == q

\* queue.retain(|a| a.token.priority != 0)
RetainLive(q, p) == SelectSeq(q, LAMBDA id : p[id] # 0)

SeqToSet(q) == {q[i] : i \in 1..Len(q)}

\* Arc<Token>: a token lives while a queued Request, a worker's popped
\* Request or a Pending node holds it.
TokenHolders(t, h, q, wr) ==
    {t[n].id : n \in {m \in DOMAIN t : t[m].kind = "Pending"}}
        \cup h \cup SeqToSet(q) \cup {wr[w] : w \in DOMAIN wr}

LiveTokens(p, t, q, wr) ==
    [id \in DOMAIN p \cap TokenHolders(t, held, q, wr) |-> p[id]]

Waiting == {w \in Workers : wpc[w] = "waiting"}
Min2(a, b) == IF a < b THEN a ELSE b

\* Mutant: the notification is lost.
NotifyLost(k) == wpc' = wpc

\* k calls of Condvar::notify_one, no worker running in between: any k of
\* the waiting workers are woken (all of them when fewer wait).
NotifyOne(k) ==
    \E W \in SUBSET Waiting :
        /\ Cardinality(W) = Min2(k, Cardinality(Waiting))
        /\ wpc' = [w \in Workers |-> IF w \in W THEN "woken" ELSE wpc[w]]

NotifyAll == [w \in Workers |-> IF wpc[w] = "waiting" THEN "woken" ELSE wpc[w]]

Bump(f, k) == PutKey(f, k, IF k \in DOMAIN f THEN f[k] + 1 ELSE 1)

\* ------------------------------------------------------------------ Init
\* State after Renderer::new: the roots with geometry, nothing pending, a
\* provider whose workers have just been spawned.
InitTree == [n \in {Root(f) : f \in Faces} |-> WithGeometry(n[1] - 1)]

InitWith(nworkers) ==
    /\ tree = InitTree
    /\ pending = <<>>
    /\ counter = NumFaces
    /\ free = <<>>
    /\ next = 0
    /\ prio = <<>>
    /\ queue = <<>>
    /\ lockHolder = 0
    /\ poisoned = FALSE
    /\ should_stop = FALSE
    /\ receiverAlive = TRUE
    /\ chan = <<>>
    /\ wpc = [w \in 1..nworkers |-> "start"]
    /\ wreq = [w \in 1..nworkers |-> -1]
    /\ mainPc = "idle"
    /\ lastDrain = "none"
    /\ held = {}
    /\ dropped = {}
    /\ poppedZero = {}
    /\ received = <<>>
    /\ cancelled = {}
    /\ racedStore = FALSE
    /\ lastCam = NoCam
    /\ call = NoCall

Init == InitWith(RenderWorkers)

\* ----------------------------------------------------------- main thread
\* Renderer::ensure_resident_patches, the traversal of the faces.  When the
\* traversal calls queue() it needs the queue mutex.
ResidencyPass(cam) ==
    /\ mainPc = "idle"
    /\ LET R == EnsureFaces(Snapshot, 1, cam)
       IN IF R.panicked
          THEN /\ mainPc' = "panic_queue"
               /\ UNCHANGED <<rendererVars, next, prio, providerVars, lastDrain>>
          ELSE /\ R.next <= MaxRequests
               /\ R.notified > 0 => lockHolder = 0
               /\ tree' = R.tree
               /\ pending' = R.pending
               /\ prio' = LiveTokens(R.prio, R.tree, R.queue, wreq)
               /\ queue' = R.queue
               /\ next' = R.next
               /\ free' = R.free
               /\ NotifyOne(R.notified)
               /\ mainPc' = "draining"
               /\ lastDrain' = "none"
               /\ UNCHANGED <<counter, lockHolder, poisoned, should_stop,
                              receiverAlive, chan, wreq>>

\* Mutant: the slot is acquired before the pending map is consulted.
on_result_eager(R, id) ==
    LET a == ArenaAcquire([counter |-> R.counter, free |-> R.free,
                             capacity |-> MAX_PATCH_COUNT])
    IN IF a.id = -1 THEN [R EXCEPT !.panicked = TRUE]
       ELSE IF id \in DOMAIN R.pending
            THEN [R EXCEPT !.tree[R.pending[id]] = WithGeometry(a.id),
                           !.pending = RemoveKey(@, id),
                           !.counter = a.counter,
                           !.free = a.free]
            ELSE [R EXCEPT !.counter = a.counter, !.free = a.free]

\* The callback ensure_resident_patches hands to receive_all, on the
\* renderer state R = [tree, pending, counter, free, panicked].
\* NodeBacking::acquire panics when the arena is exhausted.
on_result(R, id) ==
    IF id \in DOMAIN R.pending
    THEN LET a == ArenaAcquire([counter |-> R.counter, free |-> R.free,
                             capacity |-> MAX_PATCH_COUNT])
         IN IF a.id = -1 THEN [R EXCEPT !.panicked = TRUE]
            ELSE [R EXCEPT !.tree[R.pending[id]] = WithGeometry(a.id),
                           !.pending = RemoveKey(@, id),
                           !.counter = a.counter,
                           !.free = a.free]
    ELSE R

\* One iteration of receive_all's try_iter with the renderer's callback.
DrainOne ==
    /\ mainPc = "draining"
    /\ chan # <<>>
    /\ LET id == Head(chan)
           R == on_result([tree |-> tree, pending |-> pending,
                           counter |-> counter, free |-> free,
                           panicked |-> FALSE], id)
       IN IF R.panicked
          THEN /\ mainPc' = "panic_acquire"
               /\ UNCHANGED <<rendererVars, prio, chan, lastDrain>>
          ELSE /\ tree' = R.tree
               /\ pending' = R.pending
               /\ counter' = R.counter
               /\ free' = R.free
               /\ prio' = LiveTokens(prio, R.tree, queue, wreq)
               /\ chan' = Tail(chan)
               /\ lastDrain' = IF id \in DOMAIN pending THEN "applied" ELSE "stale"
               /\ UNCHANGED mainPc
    /\ UNCHANGED <<next, queue, lockHolder, poisoned, should_stop,
                   receiverAlive, wpc, wreq>>

\* Mutant: the drain waits until no request is queued or being computed.
DrainEndBlocking ==
    /\ mainPc = "draining"
    /\ chan = <<>>
    /\ queue = <<>>
    /\ \A w \in Workers : wpc[w] # "computing"
    /\ mainPc' = "idle"
    /\ UNCHANGED <<rendererVars, next, prio, providerVars, lastDrain>>

\* try_iter finds the channel empty: ensure_resident_patches returns.
DrainEnd ==
    /\ mainPc = "draining"
    /\ chan = <<>>
    /\ mainPc' = "idle"
    /\ UNCHANGED <<rendererVars, next, prio, providerVars, lastDrain>>

\* Mutant: the faces are removed and no new root is generated.
RECURSIVE ResetFacesBare(_, _)
ResetFacesBare(S, f) ==
    IF f > NumFaces THEN S
    ELSE ResetFacesBare(remove_face(S, Root(f)), f + 1)

\* Renderer::set_generator.  Assigning the field drops the old provider
\* (queue cleared under the mutex, workers told to stop, channel gone) and
\* installs one with freshly spawned workers; then every face is removed and
\* its root regenerated synchronously.
RECURSIVE ResetFaces(_, _)
ResetFaces(S, f) ==
    IF f > NumFaces \/ S.panicked THEN S
    ELSE LET S1 == remove_face(S, Root(f))
             a == ArenaAcquire([counter |-> S1.counter, free |-> S1.free,
                             capacity |-> MAX_PATCH_COUNT])
         IN IF a.id = -1 THEN [S1 EXCEPT !.panicked = TRUE]
            ELSE ResetFaces([S1 EXCEPT !.tree[Root(f)] = WithGeometry(a.id),
                                       !.counter = a.counter,
                                       !.free = a.free], f + 1)

SetGenerator ==
    /\ mainPc = "idle"
    /\ lockHolder = 0
    /\ IF poisoned
       THEN /\ mainPc' = "panic_drop"
            /\ UNCHANGED <<rendererVars, next, prio, providerVars, lastDrain>>
       ELSE LET R == ResetFaces([tree |-> tree, pending |-> pending,
                                 prio |-> prio, counter |-> counter,
                                 free |-> free, panicked |-> FALSE], 1)
            IN /\ mainPc' = IF R.panicked THEN "panic_acquire" ELSE "idle"
               /\ tree' = R.tree
               /\ pending' = R.pending
               /\ queue' = <<>>
               /\ wreq' = [w \in Workers |-> -1]
               /\ prio' = LiveTokens(R.prio, R.tree, queue', wreq')
               /\ counter' = R.counter
               /\ free' = R.free
               /\ chan' = <<>>
               /\ wpc' = [w \in Workers |-> "start"]
               /\ lastDrain' = "none"
               /\ UNCHANGED <<next, lockHolder, poisoned, should_stop,
                              receiverAlive>>

\* -------------------------------------------------------- worker threads
\* A panic of the main thread ends the process.
Alive ==
    mainPc \notin {"panic_queue", "panic_acquire", "panic_drop", "panic_draw"}

\* while !should_stop.load(Relaxed) { queue.lock().expect(..) .. }, and the
\* re-lock when Condvar::wait returns: locking fails on a poisoned mutex.
WLock(w) ==
    /\ Alive /\ wpc[w] \in {"start", "woken"}
    /\ IF wpc[w] = "start" /\ should_stop
       THEN /\ wpc' = [wpc EXCEPT ![w] = "exited"]
            /\ UNCHANGED lockHolder
       ELSE /\ lockHolder = 0
            /\ IF poisoned
               THEN /\ wpc' = [wpc EXCEPT ![w] = "panicked"]
                    /\ UNCHANGED lockHolder
               ELSE /\ wpc' = [wpc EXCEPT ![w] = "locked"]
                    /\ lockHolder' = w
    /\ UNCHANGED <<rendererVars, next, prio, queue, poisoned, should_stop,
                   receiverAlive, chan, wreq, mainPc, lastDrain>>

\* while queue.is_empty() && !should_stop  /  if queue.is_empty() { break }
\* and, with a non-empty queue, the retain that drops all cancelled tokens.
WCheck(w) ==
    /\ Alive /\ wpc[w] = "locked"
    /\ IF queue = <<>> /\ ~should_stop
       THEN /\ wpc' = [wpc EXCEPT ![w] = "prewait"]
            /\ UNCHANGED <<lockHolder, queue, prio>>
       ELSE IF queue = <<>>
            THEN /\ wpc' = [wpc EXCEPT ![w] = "exited"]
                 /\ lockHolder' = 0
                 /\ UNCHANGED <<queue, prio>>
            ELSE /\ wpc' = [wpc EXCEPT ![w] = "sort"]
                 /\ queue' = RetainLive(queue, prio)
                 /\ prio' = LiveTokens(prio, tree, queue', wreq)
                 /\ UNCHANGED lockHolder
    /\ UNCHANGED <<rendererVars, next, poisoned, should_stop,
                   receiverAlive, chan, wreq, mainPc, lastDrain>>

\* thread_is_not_empty.wait(queue): releases the mutex and blocks.
WWait(w) ==
    /\ Alive /\ wpc[w] = "prewait"
    /\ wpc' = [wpc EXCEPT ![w] = "waiting"]
    /\ lockHolder' = 0
    /\ UNCHANGED <<rendererVars, next, prio, queue, poisoned, should_stop,
                   receiverAlive, chan, wreq, mainPc, lastDrain>>

\* Sort the queue by priority.
WSort(w) ==
    /\ Alive /\ wpc[w] = "sort"
    /\ queue' = SortByPriority(queue, prio)
    /\ wpc' = [wpc EXCEPT ![w] = "pop"]
    /\ UNCHANGED <<rendererVars, next, prio, lockHolder, poisoned, should_stop,
                   receiverAlive, chan, wreq, mainPc, lastDrain>>

\* queue.pop().expect(..): a panic here unwinds with the guard held and
\* poisons the mutex; otherwise the guard is released at the block's end.
WPop(w) ==
    /\ Alive /\ wpc[w] = "pop"
    /\ lockHolder' = 0
    /\ IF queue = <<>>
       THEN /\ wpc' = [wpc EXCEPT ![w] = "panicked"]
            /\ poisoned' = TRUE
            /\ UNCHANGED <<queue, wreq>>
       ELSE /\ queue' = SubSeq(queue, 1, Len(queue) - 1)
            /\ wreq' = [wreq EXCEPT ![w] = queue[Len(queue)]]
            /\ wpc' = [wpc EXCEPT ![w] = "computing"]
            /\ UNCHANGED poisoned
    /\ UNCHANGED <<rendererVars, next, prio, should_stop, receiverAlive, chan,
                   mainPc, lastDrain>>

\* thread_sender.send((request.id, provide(..))).expect(..): the send fails
\* once the Receiver is gone.  The Request is dropped at the iteration's end.
WSend(w) ==
    /\ Alive /\ wpc[w] = "computing"
    /\ IF receiverAlive
       THEN /\ chan' = Append(chan, wreq[w])
            /\ wpc' = [wpc EXCEPT ![w] = "start"]
       ELSE /\ wpc' = [wpc EXCEPT ![w] = "panicked"]
            /\ UNCHANGED chan
    /\ wreq' = [wreq EXCEPT ![w] = -1]
    /\ prio' = LiveTokens(prio, tree, queue, wreq')
    /\ UNCHANGED <<rendererVars, next, queue, lockHolder, poisoned,
                   should_stop, receiverAlive, mainPc, lastDrain>>

WorkerStep(w) ==
    \/ WLock(w) \/ WCheck(w) \/ WWait(w)
    \/ WSort(w) \/ WPop(w) \/ WSend(w)

\* ------------------------------------------------- renderer specification
Next ==
    \/ \E cam \in Cameras : ResidencyPass(cam) /\ UNCHANGED auditVars
    \/ DrainOne /\ UNCHANGED auditVars
    \/ DrainEnd /\ UNCHANGED auditVars
    \/ SetGenerator /\ UNCHANGED auditVars
    \/ \E w \in Workers : WorkerStep(w) /\ UNCHANGED auditVars

Spec == Init /\ [][Next]_vars

\* ---------------------------------------------------- frame specification
\* The same renderer, with the camera of each residency traversal noted.
NextF ==
    \/ \E cam \in Cameras :
          /\ ResidencyPass(cam)
          /\ lastCam' = IF mainPc' = "draining" THEN cam ELSE lastCam
          /\ UNCHANGED <<provAudit, call>>
    \/ DrainOne /\ UNCHANGED auditVars
    \/ DrainEnd /\ UNCHANGED auditVars
    \/ SetGenerator /\ lastCam' = NoCam /\ UNCHANGED <<provAudit, call>>
    \/ \E w \in Workers : WorkerStep(w) /\ UNCHANGED auditVars

SpecFrames == Init /\ [][NextF]_vars

\* ------------------------------------------- generator replacement
\* The same renderer, with the value NEXT had when the last set_generator
\* returned noted: the ids the replaced provider handed out are below it.
SetGeneratorNoted ==
    /\ SetGenerator
    /\ call' = IF mainPc' = "idle"
               THEN [fn |-> "set_generator", first |-> next]
               ELSE call
    /\ UNCHANGED <<provAudit, lastCam>>

NextRegen ==
    \/ \E cam \in Cameras : ResidencyPass(cam) /\ UNCHANGED auditVars
    \/ DrainOne /\ UNCHANGED auditVars
    \/ DrainEnd /\ UNCHANGED auditVars
    \/ SetGeneratorNoted
    \/ \E w \in Workers : WorkerStep(w) /\ UNCHANGED auditVars

SpecRegen == Init /\ [][NextRegen]_vars

\* ------------------------------------------------- provider specification
\* A ThreadpoolGeometryProvider driven by a client that uses the interface
\* the way the renderer does, one call at a time in any order: queue(), a
\* store to a token it holds (0 cancels and lets go of the token),
\* receive_all() and finally drop.
InitP == InitWith(PoolWorkers)

\* ThreadpoolGeometryProvider::queue, for the first `limit` requests.
PQueueUpTo(limit) ==
    /\ mainPc = "idle"
    /\ next < limit
    /\ lockHolder = 0
    /\ IF poisoned
       THEN /\ mainPc' = "panic_queue"
            /\ UNCHANGED <<next, prio, queue, wpc, held>>
       ELSE /\ next' = next + 1
            /\ prio' = PutKey(prio, next, 1)
            /\ queue' = Append(queue, next)
            /\ held' = held \cup {next}
            /\ NotifyOne(1)
            /\ UNCHANGED mainPc
    /\ UNCHANGED <<rendererVars, lockHolder, poisoned, should_stop,
                   receiverAlive, chan, wreq, lastDrain, dropped, poppedZero,
                   received, cancelled, racedStore, lastCam, call>>

\* token.priority.store(v, SeqCst)
PStore(id, v) ==
    /\ mainPc = "idle"
    /\ id \in held
    /\ v # prio[id]
    /\ held' = IF v = 0 THEN held \ {id} ELSE held
    /\ cancelled' = IF v = 0 THEN cancelled \cup {id} ELSE cancelled
    /\ prio' = [x \in DOMAIN prio \cap TokenHolders(tree, held', queue, wreq) |->
                   IF x = id THEN v ELSE prio[x]]
    /\ racedStore' = IF \E w \in Workers : wpc[w] \in {"sort", "pop"}
                     THEN TRUE ELSE racedStore
    /\ UNCHANGED <<rendererVars, next, providerVars, mainPc, lastDrain,
                   dropped, poppedZero, received, lastCam, call>>

PQueue == PQueueUpTo(MaxQueued)

\* receive_all: entering the try_iter loop.
PReceive ==
    /\ mainPc = "idle"
    /\ mainPc' = "draining"
    /\ UNCHANGED <<rendererVars, next, prio, providerVars, lastDrain, auditVars>>

\* One iteration of try_iter; the callback notes the id and lets go of
\* the request's token.
PDrainOne ==
    /\ mainPc = "draining"
    /\ chan # <<>>
    /\ chan' = Tail(chan)
    /\ received' = Bump(received, Head(chan))
    /\ held' = held \ {Head(chan)}
    /\ prio' = [x \in DOMAIN prio \cap TokenHolders(tree, held', queue, wreq) |->
                   prio[x]]
    /\ UNCHANGED <<rendererVars, next, queue, lockHolder, poisoned, should_stop,
                   receiverAlive, wpc, wreq, mainPc, lastDrain, dropped,
                   poppedZero, cancelled, racedStore, lastCam, call>>

\* Drop for ThreadpoolGeometryProvider: queue.lock().expect(..).clear()
PDropClear ==
    /\ mainPc = "idle"
    /\ lockHolder = 0
    /\ IF poisoned
       THEN /\ mainPc' = "panic_drop"
            /\ UNCHANGED <<queue, prio>>
       ELSE /\ mainPc' = "drop_store"
            /\ queue' = <<>>
            /\ prio' = LiveTokens(prio, tree, <<>>, wreq)
    /\ UNCHANGED <<rendererVars, next, lockHolder, poisoned, should_stop,
                   receiverAlive, chan, wpc, wreq, lastDrain, auditVars>>

\* should_stop.store(true, SeqCst)
PDropStore ==
    /\ mainPc = "drop_store"
    /\ should_stop' = TRUE
    /\ mainPc' = "drop_notify"
    /\ UNCHANGED <<rendererVars, next, prio, queue, lockHolder, poisoned,
                   receiverAlive, chan, wpc, wreq, lastDrain, auditVars>>

\* is_not_empty.notify_all(); the fields, the Receiver among them, are
\* dropped when drop() returns.
PDropNotify ==
    /\ mainPc = "drop_notify"
    /\ wpc' = NotifyAll
    /\ receiverAlive' = FALSE
    /\ chan' = <<>>
    /\ mainPc' = "dropped"
    /\ UNCHANGED <<rendererVars, next, prio, queue, lockHolder, poisoned,
                   should_stop, wreq, lastDrain, auditVars>>

\* The worker steps, with what the audit notes about them.
PWCheck(w) ==
    /\ WCheck(w)
    /\ dropped' = dropped \cup
          (IF wpc'[w] = "sort" THEN {id \in SeqToSet(queue) : prio[id] = 0} ELSE {})
    /\ UNCHANGED <<held, poppedZero, received, cancelled, racedStore,
                   lastCam, call>>

PWPop(w) ==
    /\ WPop(w)
    /\ poppedZero' = poppedZero \cup
          (IF queue # <<>> /\ prio[queue[Len(queue)]] = 0
           THEN {queue[Len(queue)]} ELSE {})
    /\ racedStore' = FALSE
    /\ UNCHANGED <<held, dropped, received, cancelled, lastCam, call>>

PWorkerStep(w) ==
    \/ WLock(w) /\ UNCHANGED auditVars
    \/ PWCheck(w)
    \/ WWait(w) /\ UNCHANGED auditVars
    \/ WSort(w) /\ UNCHANGED auditVars
    \/ PWPop(w)
    \/ WSend(w) /\ UNCHANGED auditVars

NextP ==
    \/ PQueue
    \/ \E id \in held, v \in 0..MaxPrio : PStore(id, v)
    \/ PReceive
    \/ PDrainOne
    \/ DrainEnd /\ UNCHANGED auditVars
    \/ PDropClear
    \/ PDropStore
    \/ PDropNotify
    \/ \E w \in Workers : PWorkerStep(w)

SpecProvider == InitP /\ [][NextP]_vars

\* The scheduler runs every thread that can take a step, and the client
\* keeps calling receive_all.
FairP ==
    /\ \A w \in 1..PoolWorkers : WF_vars(PWorkerStep(w))
    /\ WF_vars(PReceive)
    /\ WF_vars(PDrainOne)
    /\ WF_vars(DrainEnd /\ UNCHANGED auditVars)

SpecProviderFair == SpecProvider /\ FairP

\* The provider while it is installed (never dropped), with one request
\* more: requests are queued, re-prioritised and cancelled while the
\* workers run and the client keeps calling receive_all.
MaxStream == 3

NextStream ==
    \/ PQueueUpTo(MaxStream)
    \/ \E id \in held, v \in 0..MaxPrio : PStore(id, v)
    \/ PReceive
    \/ PDrainOne
    \/ DrainEnd /\ UNCHANGED auditVars
    \/ \E w \in Workers : PWorkerStep(w)

SpecStream == InitP /\ [][NextStream]_vars /\ FairP

\* Only the main thread is sure to run: a call it has entered goes on
\* whenever it can, whatever the workers do.
FairMain ==
    /\ WF_vars(PDrainOne)
    /\ WF_vars(DrainEnd /\ UNCHANGED auditVars)

SpecProviderMain == SpecProvider /\ FairMain

\* ------------------------------------------------------------ selector
\* split_distances as Renderer::new builds it: 1, then 4, 8, .. pushed
\* max_lod_level times, reversed.
RECURSIVE Pow2(_)
Pow2(k) == IF k = 0 THEN 1 ELSE 2 * Pow2(k - 1)

split_distances ==
    [i \in 1..SplitLen |->
        IF i = SplitLen THEN 1 ELSE Pow2(SplitLen - i + 1)]

\* slice.get(i) of a usize index: None outside the slice; `dflt` stands
\* for unwrap_or's argument.  0usize.wrapping_sub(1) is usize::MAX.
SplitGet(i, dflt) ==
    IF i >= 0 /\ i < SplitLen THEN split_distances[i + 1] ELSE dflt

\* VisibleNodePart: a child index, or Whole.
Whole == 4

\* Mutant: a quadrant is drawn from the child's own backing, not from the
\* parent's.
add_from_child(Z, n, part) ==
    [Z EXCEPT !.out = Append(@,
        [node |-> IF part = Whole THEN n ELSE Kid(n, part), part |-> part,
         morph_range |-> <<0, 10>>, lod_level |-> Level(n)])]

\* LODSelectHelper::add.  Distances are kept in tenths so that the factor
\* 0.9 is exact: morph_range = (split_depth, previous_split_depth).
add(Z, n, part) ==
    LET current_split_depth == SplitGet(Level(n), 0)
        previous_split_depth == SplitGet(Level(n) - 1, current_split_depth)
        split_depth10 == 10 * current_split_depth
                           + 9 * (previous_split_depth - current_split_depth)
    IN [Z EXCEPT !.out = Append(@,
            [node |-> n, part |-> part,
             morph_range |-> <<split_depth10, 10 * previous_split_depth>>,
             lod_level |-> Level(n)])]

\* Mutant: every result but Selected counts as not selected, as the
\* function's documentation has it.
is_not_selected_doc(r) == r # "Selected"

\* LODSelectResult::is_not_selected
is_not_selected(r) == r \in {"Undefined", "OutOfRange", "Pending"}

Containment == {"Outside", "Intersects", "Inside"}

\* What one camera makes of a Resident node's bounding box: its frustum
\* classification, whether the horizon cone contains it, and its range
\* class (0: beyond the parent level's split distance, 1: within it, 2:
\* also within its own level's).  Fields the selector does not read once
\* the box is culled are fixed.
Views ==
    {v \in [frustum : Containment, cone : BOOLEAN, range : 0..2] :
        /\ v.frustum = "Outside" => ~v.cone
        /\ (v.frustum = "Outside" \/ v.cone) => v.range = 0}

\* Mutant: no horizon culling.
cone_never(view, n) == FALSE

\* cone.contains(&geometry.bounding_box()) under the classification `view`.
cone_contains(view, n) == view[n].cone

Ret(Z, n, r) == [Z |-> [Z EXCEPT !.results = PutKey(@, n, r)], res |-> r]

\* Mutant: a pending or out-of-range child's quadrant is not filled in.
AddParts0(Z, n, rs, k) == Z

\* Mutant: every quadrant is filled in, whatever the child returned.
RECURSIVE AddPartsAll(_, _, _, _)
AddPartsAll(Z, n, rs, k) ==
    IF k > 3 THEN Z ELSE AddPartsAll(add(Z, n, k), n, rs, k + 1)

\* The loop that fills in the quadrants of the children that were not
\* selected with geometry of the parent.
RECURSIVE AddParts(_, _, _, _)
AddParts(Z, n, rs, k) ==
    IF k > 3 THEN Z
    ELSE AddParts(IF is_not_selected(rs[k + 1]) THEN add(Z, n, k) ELSE Z,
                  n, rs, k + 1)

\* LODSelectHelper::recurse on tree t under the classification `view`.
\* Z = [out, culled, results] collects the emitted contributions and, for
\* the record, the nodes culled and the result of every node visited.
RECURSIVE recurse(_, _, _, _, _)
RECURSIVE RecurseKids(_, _, _, _, _, _, _)
RecurseKids(Z, t, view, n, k, inside, rs) ==
    IF k > 3 THEN [Z |-> Z, rs |-> rs]
    ELSE LET r == recurse(Z, t, view, Kid(n, k), inside)
         IN RecurseKids(r.Z, t, view, n, k + 1, inside,
                        [rs EXCEPT ![k + 1] = r.res])

recurse(Z, t, view, n, parent_completely_in_frustum) ==
    IF t[n].kind = "WithGeometry"
    THEN LET frustum_containment ==
                 IF parent_completely_in_frustum THEN "Inside"
                 ELSE view[n].frustum
             cull == [Z EXCEPT !.culled = @ \cup {n}]
         IN IF frustum_containment = "Outside"
            THEN Ret(cull, n, "OutOfFrustum")
            ELSE IF cone_contains(view, n)
            THEN Ret(cull, n, "OutOfFrustum")
            ELSE IF Level(n) > 0 /\ view[n].range = 0
            THEN Ret(Z, n, "OutOfRange")
            ELSE IF Level(n) < SplitLen /\ view[n].range = 2
            THEN LET K == IF has_children(t, n)
                          THEN RecurseKids(Z, t, view, n, 0,
                                           frustum_containment = "Inside",
                                           [i \in 1..4 |-> "Undefined"])
                          ELSE [Z |-> Z, rs |-> [i \in 1..4 |-> "Undefined"]]
                 IN IF \A i \in 1..4 : is_not_selected(K.rs[i])
                    THEN Ret(add(K.Z, n, Whole), n, "Selected")
                    ELSE Ret(AddParts(K.Z, n, K.rs, 0), n,
                             IF \E i \in 1..4 : K.rs[i] = "Selected"
                             THEN "Selected" ELSE "OutOfFrustum")
            ELSE Ret(add(Z, n, Whole), n, "Selected")
    ELSE Ret(Z, n, "Pending")

\* LODSelectHelper::select followed by result().
select(t, view, root) ==
    recurse([out |-> <<>>, culled |-> {}, results |-> <<>>],
            t, view, root, FALSE).Z

\* The quadtrees one face can hold: children hang off one chain of nodes
\* (the ancestors-or-self of p), everything with children is Resident, and
\* the Resident nodes fit the arena.
ShapeOf(p) ==
    {Root(p[1])} \cup UNION {{Kid(q, c) : c \in Child} : q \in Prefixes(p) \ {p}}

TreesOf(p) ==
    {[n \in ShapeOf(p) |-> IF n \in R THEN WithGeometry(0) ELSE Pending(0)] :
        R \in {R \in SUBSET ShapeOf(p) :
                  /\ Prefixes(p) \ {p} \subseteq R
                  /\ Root(p[1]) \in R
                  /\ Cardinality(R) <= MAX_PATCH_COUNT}}

SelTrees == UNION {TreesOf(p) : p \in SplitNodes \cup PathsOfLen(SplitLen + 1)}

RootOf(t) == CHOOSE n \in DOMAIN t : Len(n) = 1

ResidentOf(t) == {n \in DOMAIN t : t[n].kind = "WithGeometry"}

\* Renderer::draw, the selection of one face.
CallSelect ==
    /\ call = NoCall
    /\ \E t \in SelTrees :
        \E view \in [ResidentOf(t) -> Views] :
            call' = [fn |-> "select", tree |-> t, view |-> view,
                     sel |-> select(t, view, RootOf(t))]

\* Everything but the record of the last pure call.
stateVars == <<tree, pending, counter, free, next, prio, queue, lockHolder,
               poisoned, should_stop, receiverAlive, chan, wpc, wreq, mainPc,
               lastDrain, provAudit, lastCam>>

\* Selection runs on any quadtree and any camera.
NextSelect == CallSelect /\ UNCHANGED stateVars

SpecSelect == Init /\ [][NextSelect]_vars

\* ------------------------------------------------------- draw packing
\* VERTICES_PER_PATCH is a power of two plus one.
PatchLog2 == 3
VERTICES_PER_PATCH == Pow2(PatchLog2) + 1

\* The six indices pushed for the grid cell at (x, y): its two triangles.
CellIndex(x, y, k) ==
    LET dx == <<0, 0, 1, 0, 1, 1>>[k + 1]
        dy == <<0, 1, 1, 0, 1, 0>>[k + 1]
    IN ((x + dx) + (y + dy) * VERTICES_PER_PATCH) % 65536

\* Mutant: the top-right and bottom-left regions are added in the other
\* order.
RegionsSwapped ==
    LET h == VERTICES_PER_PATCH \div 2
    IN << <<0, 0, h + 1, h + 1>>,
          <<0, h, h + 1, VERTICES_PER_PATCH>>,
          <<h, 0, VERTICES_PER_PATCH, h + 1>>,
          <<h, h, VERTICES_PER_PATCH, VERTICES_PER_PATCH>> >>

\* The arguments of the four add_region calls, in call order.
Regions ==
    LET h == VERTICES_PER_PATCH \div 2
    IN << <<0, 0, h + 1, h + 1>>,
          <<h, 0, VERTICES_PER_PATCH, h + 1>>,
          <<0, h, h + 1, VERTICES_PER_PATCH>>,
          <<h, h, VERTICES_PER_PATCH, VERTICES_PER_PATCH>> >>

\* add_region: what its two loops push, row by row.
add_region(x_start, y_start, x_end, y_end) ==
    LET w == x_end - 1 - x_start
        h == y_end - 1 - y_start
    IN [j \in 1..(6 * w * h) |->
           LET c == (j - 1) \div 6
           IN CellIndex(x_start + (c % w), y_start + (c \div w), (j - 1) % 6)]

\* The index buffer Renderer::new uploads.
index_buffer ==
    LET R(q) == add_region(Regions[q][1], Regions[q][2], Regions[q][3],
                           Regions[q][4])
    IN R(1) \o R(2) \o R(3) \o R(4)

\* GeometryBuffer::base_vertex and NodeBacking::atlas_index
base_vertex(id) == id * (VERTICES_PER_PATCH * VERTICES_PER_PATCH)
atlas_index(id) == id

\* The (first_index, count) draw computes for a contribution's part.
first_index_count(part, index_count) ==
    IF part = Whole THEN <<0, index_count>>
    ELSE IF part = 0 THEN <<0, index_count \div 4>>
    ELSE IF part = 1 THEN <<index_count \div 4, index_count \div 4>>
    ELSE IF part = 2 THEN <<(index_count \div 4) * 2, index_count \div 4>>
    ELSE <<(index_count \div 4) * 3, index_count \div 4>>

\* Renderer::draw after the selection: the instance buffer and the command
\* buffer, both of MAX_PATCH_COUNT entries, are written by contribution
\* index and the first Len(visible_nodes) commands are submitted.  Writing
\* or slicing past the end of a buffer panics.
draw(t, visible_nodes) ==
    LET k == Len(visible_nodes)
        index_count == Len(index_buffer)
    IN IF k > MAX_PATCH_COUNT
       THEN [panicked |-> TRUE, instances |-> <<>>, commands |-> <<>>,
             submitted |-> 0]
       ELSE [panicked |-> FALSE,
             instances |->
                 [i \in 1..k |->
                     [atlas_index |->
                          atlas_index(t[visible_nodes[i].node].node_id),
                      morph_range |-> visible_nodes[i].morph_range,
                      lod_level |-> visible_nodes[i].lod_level]],
             commands |->
                 [i \in 1..k |->
                     LET fc == first_index_count(visible_nodes[i].part,
                                                 index_count)
                     IN [count |-> fc[2],
                         instance_count |-> 1,
                         first_index |-> fc[1],
                         base_vertex |->
                             base_vertex(t[visible_nodes[i].node].node_id),
                         base_instance |-> i - 1]],
             submitted |-> k]

\* The slots the Resident nodes of a tree may hold: pairwise distinct.
SlotsOf(t) ==
    {s \in [ResidentOf(t) -> 0..(MAX_PATCH_COUNT - 1)] :
        \A m, n \in ResidentOf(t) : m # n => s[m] # s[n]}

WithSlots(t, s) ==
    [n \in DOMAIN t |-> IF n \in DOMAIN s THEN WithGeometry(s[n]) ELSE t[n]]

\* Renderer::draw on one face: selection, then packing.
CallDraw ==
    /\ call = NoCall
    /\ \E t \in SelTrees :
        \E view \in [ResidentOf(t) -> Views], s \in SlotsOf(t) :
            LET ts == WithSlots(t, s)
                sel == select(ts, view, RootOf(ts))
            IN call' = [fn |-> "draw", tree |-> ts, view |-> view,
                        visible_nodes |-> sel.out,
                        out |-> draw(ts, sel.out)]

NextDraw == CallDraw /\ UNCHANGED stateVars

SpecDraw == Init /\ [][NextDraw]_vars

\* ------------------------------------------------------ frame rendering
\* The loop of Renderer::draw over the faces: one helper collects the
\* contributions of every face.
RECURSIVE SelectFaces(_, _, _, _)
SelectFaces(Z, t, view, f) ==
    IF f > NumFaces THEN Z
    ELSE SelectFaces(recurse(Z, t, view, Root(f), FALSE).Z, t, view, f + 1)

\* The classifications the frustum of the frame's camera can give: draw is
\* called with the frustum ensure_resident_patches was called with, and
\* both test the same bounding box against the same split distance, so a
\* node that kept or got children in the traversal is within its split
\* distance.  A box is not outside a frustum its parent's box is inside of.
FrameViews(t) ==
    {view \in [ResidentOf(t) -> Views] :
        \A n \in ResidentOf(t) :
            /\ (has_children(t, n) /\ view[n].frustum # "Outside"
                    /\ ~view[n].cone)
                   => view[n].range = 2
            /\ (Len(n) > 1 /\ view[Parent(n)].frustum = "Inside")
                   => view[n].frustum # "Outside"}

\* main.rs runs ensure_resident_patches, then draw, then handles the user
\* interface's events, set_generator among them.
FrameDrawn == call.fn \in {"none", "frame"}

\* Renderer::draw in the frame: &self, so the quadtrees, the pending map
\* and the arena are only read.
DrawFrame ==
    /\ mainPc = "idle"
    /\ call.fn = "ensure_resident_patches"
    /\ \E view \in FrameViews(tree) :
          LET sel == SelectFaces([out |-> <<>>, culled |-> {},
                                  results |-> <<>>], tree, view, 1)
              d == draw(tree, sel.out)
          IN /\ call' = [fn |-> "frame", visible_nodes |-> sel.out,
                         panicked |-> d.panicked, submitted |-> d.submitted]
             /\ mainPc' = IF d.panicked THEN "panic_draw" ELSE "idle"
    /\ UNCHANGED <<rendererVars, next, prio, providerVars, lastDrain,
                   provAudit, lastCam>>

NextRender ==
    \/ \E cam \in Cameras :
          /\ FrameDrawn
          /\ ResidencyPass(cam)
          /\ call' = [fn |-> "ensure_resident_patches"]
          /\ UNCHANGED <<provAudit, lastCam>>
    \/ DrainOne /\ UNCHANGED auditVars
    \/ DrainEnd /\ UNCHANGED auditVars
    \/ DrawFrame
    \/ FrameDrawn /\ SetGenerator /\ call' = NoCall
                  /\ UNCHANGED <<provAudit, lastCam>>
    \/ \E w \in Workers : WorkerStep(w) /\ UNCHANGED auditVars

SpecRender == Init /\ [][NextRender]_vars

\* ----------------------------------------------------------- request ids
\* queue() of both providers draws its id from the one static NEXT.  Client
\* threads call queue on any provider instance, concurrently: the provider
\* the renderer holds, the one set_generator replaced it by, and a
\* SyncGeometryProvider.
MaxIds == 4
IdThreads == 2

Providers == {"threadpool_old", "threadpool_new", "sync"}

\* Mutant: the counter is read and not advanced.
fetch_keep(n) == [ret |-> n, new |-> n]

\* NEXT.fetch_add(1, SeqCst): one atomic step returning the old value.
fetch_add(n) == [ret |-> n, new |-> n + 1]

IdBegin ==
    /\ call = NoCall
    /\ call' = [fn |-> "queue",
                pc |-> [t \in 1..IdThreads |-> "idle"],
                inst |-> [t \in 1..IdThreads |-> "sync"],
                id |-> [t \in 1..IdThreads |-> -1],
                queued |-> [p \in Providers |-> <<>>],
                returned |-> <<>>]
    /\ UNCHANGED stateVars

\* let next = NEXT.fetch_add(1, Ordering::SeqCst);
QFetch(t, p) ==
    /\ call.fn = "queue"
    /\ call.pc[t] = "idle"
    /\ next < MaxIds
    /\ next' = fetch_add(next).new
    /\ call' = [call EXCEPT !.pc[t] = "fetched", !.inst[t] = p,
                            !.id[t] = fetch_add(next).ret]
    /\ UNCHANGED <<tree, pending, counter, free, prio, queue, lockHolder,
                   poisoned, should_stop, receiverAlive, chan, wpc, wreq,
                   mainPc, lastDrain, provAudit, lastCam>>

\* The rest of queue(): the request is pushed on the instance's queue (or
\* computed and sent on the instance's channel) and (token, next) returned.
QReturn(t) ==
    /\ call.fn = "queue"
    /\ call.pc[t] = "fetched"
    /\ call' = [call EXCEPT
                   !.pc[t] = "idle",
                   !.queued[call.inst[t]] = Append(@, call.id[t]),
                   !.returned = Append(@, [id |-> call.id[t],
                                           inst |-> call.inst[t],
                                           thread |-> t])]
    /\ UNCHANGED stateVars

NextIds ==
    \/ IdBegin
    \/ \E t \in 1..IdThreads, p \in Providers : QFetch(t, p)
    \/ \E t \in 1..IdThreads : QReturn(t)

SpecIds == Init /\ [][NextIds]_vars

\* ------------------------------------------------ frustum classification
\* The frustum has six planes and a box eight corners.
NumPlanes == 6
NumCorners == 8

\* Mutant: a corner on a plane counts as behind it.
half_space_closed(det) ==
    IF det <= 0 THEN "Negative" ELSE "Positive"

\* half_space on the value of the plane equation at a point.
half_space(det) ==
    IF det < 0 THEN "Negative" ELSE IF det > 0 THEN "Positive" ELSE "On"

\* The inner loop of classify: the corners against one plane.
RECURSIVE CornerLoop(_, _, _)
CornerLoop(row, c, acc) ==
    IF c > NumCorners THEN acc
    ELSE CornerLoop(row, c + 1,
            IF half_space(row[c]) = "Negative"
            THEN [point_inside |-> 0,
                  total_positive |-> acc.total_positive - 1]
            ELSE acc)

\* The outer loop of classify, with its early return.
RECURSIVE PlaneLoop(_, _, _)
PlaneLoop(dets, p, total_corners_inside) ==
    IF p > NumPlanes
    THEN IF total_corners_inside = 6 THEN "Inside" ELSE "Intersects"
    ELSE LET a == CornerLoop(dets[p], 1,
                      [total_positive |-> 8, point_inside |-> 1])
         IN IF a.total_positive = 0 THEN "Outside"
            ELSE PlaneLoop(dets, p + 1, total_corners_inside + a.point_inside)

\* Classify<AABB3> for Frustum, on dets[p][c], the value of plane p's
\* equation at corner c.
classify(dets) == PlaneLoop(dets, 1, 0)

\* The corners of a box against one plane: all behind, all in front, all
\* on it, one behind, all behind but one that is on it, behind and on it in
\* turn.
DetRows ==
    {[c \in 1..NumCorners |-> -1],
     [c \in 1..NumCorners |-> 1],
     [c \in 1..NumCorners |-> 0],
     [c \in 1..NumCorners |-> IF c = 1 THEN -1 ELSE 1],
     [c \in 1..NumCorners |-> IF c = NumCorners THEN 0 ELSE -1],
     [c \in 1..NumCorners |-> IF c % 2 = 0 THEN -1 ELSE 0]}

CallClassify ==
    /\ call = NoCall
    /\ \E dets \in [1..NumPlanes -> DetRows] :
          call' = [fn |-> "classify", dets |-> dets, result |-> classify(dets)]

NextClassify == CallClassify /\ UNCHANGED stateVars

SpecClassify == Init /\ [][NextClassify]_vars

\* ------------------------------------------- index buffer construction
\* Renderer::new filling `indices`: the four add_region calls run one
\* after the other, each push of an index is a step.  q is the call in
\* progress, (x, y) the cell its loops are at, k the next of its six pushes.
IndexBegin ==
    /\ call = NoCall
    /\ call' = [fn |-> "index_buffer", q |-> 1, x |-> Regions[1][1],
                y |-> Regions[1][2], k |-> 0, indices |-> <<>>,
                done |-> FALSE]

IndexPush ==
    /\ call.fn = "index_buffer"
    /\ ~call.done
    /\ LET r == Regions[call.q]
           pushed == Append(call.indices, CellIndex(call.x, call.y, call.k))
           rowEnd == call.x + 1 >= r[3] - 1
           regionEnd == rowEnd /\ call.y + 1 >= r[4] - 1
       IN call' =
            IF call.k < 5
            THEN [call EXCEPT !.k = @ + 1, !.indices = pushed]
            ELSE IF ~rowEnd
            THEN [call EXCEPT !.k = 0, !.x = @ + 1, !.indices = pushed]
            ELSE IF ~regionEnd
            THEN [call EXCEPT !.k = 0, !.x = r[1], !.y = @ + 1,
                              !.indices = pushed]
            ELSE IF call.q < 4
            THEN [call EXCEPT !.k = 0, !.q = @ + 1,
                              !.x = Regions[call.q + 1][1],
                              !.y = Regions[call.q + 1][2],
                              !.indices = pushed]
            ELSE [call EXCEPT !.k = 0, !.indices = pushed, !.done = TRUE]

NextIndices ==
    \/ IndexBegin /\ UNCHANGED stateVars
    \/ IndexPush /\ UNCHANGED stateVars

SpecIndices == Init /\ [][NextIndices]_vars

\* ------------------------------------------------ patch vertex upload
\* NodeGeometry::new filling `vertices`, one loop iteration a step.  The
\* array starts uninitialized: a read of a position not in `written` yields
\* any value.
VertexIds == 0..(VERTICES_PER_PATCH * VERTICES_PER_PATCH - 1)
Uninit == [position |-> 0, position_morph_target |-> 0]

\* rel_pos of the patch geometries tried: all positions distinct, in either
\* order, or positions that repeat.
Geometries ==
    {[i \in VertexIds |-> i],
     [i \in VertexIds |-> VERTICES_PER_PATCH * VERTICES_PER_PATCH - i],
     [i \in VertexIds |-> i % 3]}
Garbage == {-1, -2}

\* Mutant: the morph target is only moved to an even column.
morph_target_column(i) ==
    LET x == i % VERTICES_PER_PATCH
    IN i - ((x % 2) * 1)

\* The vertex index a vertex morphs to.
morph_target_index(i) ==
    LET x == i % VERTICES_PER_PATCH
        y == (i - x) \div VERTICES_PER_PATCH
    IN i - ((x % 2) * 1) - ((y % 2) * VERTICES_PER_PATCH)

VerticesBegin ==
    /\ call = NoCall
    /\ \E g \in Geometries :
          call' = [fn |-> "vertices", positions |-> g, i |-> 0,
                   vertices |-> [j \in VertexIds |-> Uninit],
                   written |-> {}, readUninit |-> FALSE]

VerticesStep ==
    /\ call.fn = "vertices"
    /\ call.i \in VertexIds
    /\ LET i == call.i
           m == morph_target_index(i)
           v1 == [call.vertices EXCEPT ![i].position = call.positions[i]]
           valid == m \in call.written \cup {i}
       IN \E target \in (IF valid THEN {v1[m].position} ELSE Garbage) :
             call' = [call EXCEPT
                         !.vertices =
                             [v1 EXCEPT ![i].position_morph_target = target],
                         !.i = i + 1,
                         !.written = @ \cup {i},
                         !.readUninit = @ \/ ~valid]

NextVertices ==
    \/ VerticesBegin /\ UNCHANGED stateVars
    \/ VerticesStep /\ UNCHANGED stateVars

SpecVertices == Init /\ [][NextVertices]_vars

\* ------------------------------------------ split distance table
\* Renderer::new building split_distances, one loop iteration a step, for
\* planets of every size class L = ceil(log2(0.5 * PI * radius)) up to
\* MaxRadiusLog2.  The values are powers of two, exact in f64.
MaxRadiusLog2 == 14

MaxLodLevel(L) == IF L - 1 > 1 THEN L - 1 ELSE 1

Reverse(v) == [i \in 1..Len(v) |-> v[Len(v) + 1 - i]]

DistBegin ==
    /\ call = NoCall
    /\ \E L \in 1..MaxRadiusLog2 :
          call' = [fn |-> "split_distances", max_lod_level |-> MaxLodLevel(L),
                   split_distances |-> <<1>>, last_value |-> 2, i |-> 0,
                   reversed |-> FALSE]

DistPush ==
    /\ call.fn = "split_distances"
    /\ call.i < call.max_lod_level
    /\ call' = [call EXCEPT
                   !.split_distances = Append(@, call.last_value * 2),
                   !.last_value = @ * 2,
                   !.i = @ + 1]

DistReverse ==
    /\ call.fn = "split_distances"
    /\ call.i = call.max_lod_level
    /\ ~call.reversed
    /\ call' = [call EXCEPT !.split_distances = Reverse(@),
                            !.reversed = TRUE]

NextDistances ==
    \/ DistBegin /\ UNCHANGED stateVars
    \/ DistPush /\ UNCHANGED stateVars
    \/ DistReverse /\ UNCHANGED stateVars

SpecDistances == Init /\ [][NextDistances]_vars

\* ------------------------------------------------- arena specification
\* An arena of ArenaCapacity ids on its own, with the ids of the roots
\* allocated: any sequence of acquire and of release of an allocated id.
ArenaCapacity == 4

Allocated(a) == (0..(a.counter - 1)) \ {a.free[i] : i \in 1..Len(a.free)}

PrevCall == [fn |-> call.fn, arg |-> IF call.fn = "none" THEN -1 ELSE call.arg]

ArAcquire ==
    LET b == [counter |-> counter, free |-> free, capacity |-> ArenaCapacity]
        a == ArenaAcquire(b)
    IN /\ counter' = a.counter
       /\ free' = a.free
       /\ call' = [fn |-> "acquire", before |-> b, arg |-> -1, id |-> a.id,
                   prev |-> PrevCall]

ArRelease(id) ==
    LET b == [counter |-> counter, free |-> free, capacity |-> ArenaCapacity]
    IN /\ id \in Allocated(b)
       /\ free' = ArenaRelease(free, id)
       /\ call' = [fn |-> "release", before |-> b, arg |-> id, id |-> -1,
                   prev |-> PrevCall]
       /\ UNCHANGED counter

arenaRest == <<tree, pending, next, prio, queue, lockHolder, poisoned,
               should_stop, receiverAlive, chan, wpc, wreq, mainPc, lastDrain,
               provAudit, lastCam>>

NextArena ==
    \/ ArAcquire /\ UNCHANGED arenaRest
    \/ \E id \in 0..(ArenaCapacity - 1) : ArRelease(id) /\ UNCHANGED arenaRest

SpecArena == Init /\ [][NextArena]_vars

\* --------------------------------------------- patch location specification
\* Offsets and sizes are f64 values that stay dyadic: they are kept as
\* integers in units of 2^-LocDepth of a face, exact down to level LocDepth.
LocDepth == 4

\* Mutant: the bottom-right child is not moved down.
split_overlap(l, index) ==
    LET size == l.size \div 2
    IN [face |-> l.face,
        x |-> IF index \in {1, 3} THEN l.x + size ELSE l.x,
        y |-> IF index = 2 THEN l.y + size ELSE l.y,
        size |-> size,
        lod_level |-> l.lod_level + 1]

\* PatchLocation::split; index is Child::index().
split(l, index) ==
    LET size == l.size \div 2
    IN [face |-> l.face,
        x |-> IF index \in {1, 3} THEN l.x + size ELSE l.x,
        y |-> IF index \in {2, 3} THEN l.y + size ELSE l.y,
        size |-> size,
        lod_level |-> l.lod_level + 1]

\* Into<PatchLocation> for Face: offset (0, 0), size 1, level 0.
FaceLocation(f) ==
    [face |-> f, x |-> 0, y |-> 0, size |-> Pow2(LocDepth), lod_level |-> 0]

\* The part of the face a location covers, as cells of 2^-LocDepth.
Square(l) ==
    {<<l.face, i, j>> : i \in l.x..(l.x + l.size - 1),
                        j \in l.y..(l.y + l.size - 1)}

\* A face converted to its root location.
LocRoot(f) ==
    /\ call = NoCall
    /\ call' = [fn |-> "into", out |-> FaceLocation(f)]

\* A location obtained so far split once more.
LocSplit(index) ==
    /\ call.fn \in {"into", "split"}
    /\ call.out.lod_level < LocDepth
    /\ call' = [fn |-> "split", loc |-> call.out, index |-> index,
                out |-> split(call.out, index)]

NextLocation ==
    \/ \E f \in Faces : LocRoot(f) /\ UNCHANGED stateVars
    \/ \E index \in Child : LocSplit(index) /\ UNCHANGED stateVars

SpecLocation == Init /\ [][NextLocation]_vars

\* ------------------------------------------------ cube coordinate walk
\* Side length of a cube face of the diamond-square grid.
CubeSize == 2

Face == {"Left", "Right", "Top", "Bottom", "Front", "Back"}

\* i32 `/` and `%` truncate toward zero.
DivT(a, b) == IF a >= 0 THEN a \div b ELSE -((-a) \div b)
RemT(a, b) == a - b * DivT(a, b)

face_to_primitive(face) ==
    CASE face = "Left" -> 3
      [] face = "Right" -> 1
      [] face = "Top" -> 4
      [] face = "Bottom" -> 5
      [] face = "Front" -> 0
      [] face = "Back" -> 2

primitive_to_face(p) ==
    CASE p = 3 -> "Left"
      [] p = 1 -> "Right"
      [] p = 4 -> "Top"
      [] p = 5 -> "Bottom"
      [] p = 0 -> "Front"
      [] p = 2 -> "Back"

CubeCoord(x, y, face) == [x |-> x, y |-> y, face |-> face]

\* CubeCoord::add_dx
add_dx(self, dx, size) ==
    LET x_new == self.x + dx
    IN IF x_new >= 0 /\ x_new < size
       THEN CubeCoord(x_new, self.y, self.face)
       ELSE CASE self.face \in {"Left", "Right", "Front", "Back"} ->
                    LET face_idx == face_to_primitive(self.face)
                    IN CubeCoord(RemT(x_new + size, size), self.y,
                           primitive_to_face(
                               RemT(DivT(x_new + 4 * size, size) + face_idx,
                                    4)))
              [] self.face = "Top" ->
                    IF x_new < 0
                    THEN CubeCoord(self.y, -x_new, "Left")
                    ELSE CubeCoord(size - self.y - 1, x_new - size, "Right")
              [] self.face = "Bottom" ->
                    IF x_new < 0
                    THEN CubeCoord(size - self.y - 1, size + x_new, "Left")
                    ELSE CubeCoord(self.y, 2 * size - x_new - 1, "Right")

\* CubeCoord::add_dy
add_dy(self, dy, size) ==
    LET y_new == self.y + dy
    IN IF y_new >= 0 /\ y_new < size
       THEN CubeCoord(self.x, y_new, self.face)
       ELSE CASE self.face = "Front" ->
                    IF y_new < 0
                    THEN CubeCoord(self.x, size + y_new, "Top")
                    ELSE CubeCoord(self.x, y_new - size, "Bottom")
              [] self.face = "Right" ->
                    IF y_new < 0
                    THEN CubeCoord(size + y_new, size - self.x - 1, "Top")
                    ELSE CubeCoord(2 * size - y_new - 1, self.x, "Bottom")
              [] self.face = "Back" ->
                    IF y_new < 0
                    THEN CubeCoord(size - self.x - 1, -y_new, "Top")
                    ELSE CubeCoord(size - self.x - 1, 2 * size - y_new - 1,
                                   "Bottom")
              [] self.face = "Left" ->
                    IF y_new < 0
                    THEN CubeCoord(-y_new, self.x, "Top")
                    ELSE CubeCoord(y_new - size, size - self.x - 1, "Bottom")
              [] self.face = "Top" ->
                    IF y_new < 0
                    THEN CubeCoord(size - self.x - 1, -y_new, "Back")
                    ELSE CubeCoord(self.x, y_new - size, "Front")
              [] self.face = "Bottom" ->
                    IF y_new < 0
                    THEN CubeCoord(self.x, size + y_new, "Front")
                    ELSE CubeCoord(size - self.x - 1, 2 * size - y_new - 1,
                                   "Back")

\* The coordinates of the grid, and the steps with |k| <= size.
CubeCoords ==
    {CubeCoord(x, y, f) : x \in 0..(CubeSize - 1), y \in 0..(CubeSize - 1),
                          f \in Face}
Steps == (0 - CubeSize)..CubeSize

\* add_dx(k) and then add_dx(-k) on the result.
WalkDx(p, k) ==
    /\ call = NoCall
    /\ call' = [fn |-> "add_dx", coord |-> p, k |-> k,
                out |-> add_dx(p, k, CubeSize),
                back |-> add_dx(add_dx(p, k, CubeSize), 0 - k, CubeSize)]

\* add_dy(k) and then add_dy(-k) on the result.
WalkDy(p, k) ==
    /\ call = NoCall
    /\ call' = [fn |-> "add_dy", coord |-> p, k |-> k,
                out |-> add_dy(p, k, CubeSize),
                back |-> add_dy(add_dy(p, k, CubeSize), 0 - k, CubeSize)]

NextCube ==
    \/ \E p \in CubeCoords, k \in Steps : WalkDx(p, k) /\ UNCHANGED stateVars
    \/ \E p \in CubeCoords, k \in Steps : WalkDy(p, k) /\ UNCHANGED stateVars

SpecCube == Init /\ [][NextCube]_vars

\* ------------------------------------------------------------- claims
Resident == {n \in DOMAIN tree : tree[n].kind = "WithGeometry"}
PendingNodes == {n \in DOMAIN tree : tree[n].kind = "Pending"}
ResidentSlots == {tree[n].node_id : n \in Resident}

\* C1: the pending-requests map and the Pending nodes of the quadtrees are
\* in one-to-one correspondence: every key refers to a live Pending node
\* carrying exactly that request id, and every live Pending node's request
\* id is a key of the map that refers back to it.
C1_PendingMapMatchesNodes ==
    /\ \A id \in DOMAIN pending :
          /\ pending[id] \in DOMAIN tree
          /\ tree[pending[id]] = Pending(id)
    /\ \A n \in PendingNodes :
          /\ tree[n].id \in DOMAIN pending
          /\ pending[tree[n].id] = n

\* Pending nodes at two levels at once, after an earlier split was merged
\* away or delivered.
C1_Witness ==
    /\ \E n \in PendingNodes : Level(n) = 1
    /\ \E n \in PendingNodes : Level(n) = 2
    /\ Cardinality(DOMAIN pending) >= 5

\* C3 (as claimed): a cancelled request leaves no entry in the pending map
\* and the system keeps running, i.e. no thread panics on the request queue.
C3_CancelKeepsRunning ==
    /\ \A id \in DOMAIN prio : prio[id] = 0 => id \notin DOMAIN pending
    /\ ~poisoned
    /\ \A w \in Workers : wpc[w] # "panicked"
    /\ mainPc \notin {"panic_queue", "panic_drop"}

\* C7: the number of Resident (WithGeometry) nodes over all quadtrees is
\* at most MAX_PATCH_COUNT.
C7_ResidentBound == Cardinality(Resident) <= MAX_PATCH_COUNT

\* Every slot of the arena is in use by a Resident node.
C7_Witness == Cardinality(Resident) = MAX_PATCH_COUNT

\* C8: the slots held by Resident nodes are pairwise distinct and lie in
\* [0, MAX_PATCH_COUNT), none of them is in the arena's free list, the free
\* list has no duplicates, and the arena's len() equals the number of
\* Resident nodes.
C8_SlotsExclusive ==
    /\ \A n, m \in Resident : tree[n].node_id = tree[m].node_id => n = m
    /\ ResidentSlots \subseteq 0..(MAX_PATCH_COUNT - 1)
    /\ \A i \in 1..Len(free) : free[i] \notin ResidentSlots
    /\ \A i, j \in 1..Len(free) : free[i] = free[j] => i = j
    /\ ArenaLen([counter |-> counter, free |-> free]) = Cardinality(Resident)

\* A released slot waits in the free list while a promoted node is
\* Resident next to the root.
C8_Witness ==
    /\ Len(free) > 0
    /\ \E n \in Resident : Level(n) >= 1

\* C9: when the drain hands the callback a result whose request id is not
\* a key of the pending map, the quadtree, the pending map and the arena
\* are left unchanged.
C9_StaleResultNoEffect ==
    [][(/\ mainPc = "draining"
        /\ chan # <<>>
        /\ Head(chan) \notin DOMAIN pending
        /\ chan' = Tail(chan))
       => UNCHANGED <<tree, pending, counter, free>>]_vars

\* The callback has just ignored a stale result.
C9_Witness == lastDrain = "stale"

\* C10 (as claimed): the renderer does not abort when a result is delivered
\* while the arena has no free slot.
C10_NoAbortWhenFull == mainPc # "panic_acquire"

PopStep(w) == wpc[w] = "pop" /\ wpc'[w] = "computing"

\* C5 (as claimed): the request a worker takes has the highest priority
\* among the non-cancelled requests in the queue, by the priority values
\* as they are when it is popped.
C5_HighestAtPop ==
    [][\A w \in Workers :
          PopStep(w) =>
              LET live == {y \in SeqToSet(queue) : prio[y] # 0}
              IN /\ wreq'[w] \in live
                 /\ \A y \in live : prio[y] <= prio[wreq'[w]]]_vars

\* C5 (amended): when no priority is stored between a worker's
\* drop-cancelled step and its pop, the request it takes has the highest
\* priority among the non-cancelled requests in the queue, by the priority
\* values as they are when it is popped, whatever they were at enqueue.
C5_HighestUnlessRaced ==
    [][\A w \in Workers :
          (PopStep(w) /\ ~racedStore) =>
              LET live == {y \in SeqToSet(queue) : prio[y] # 0}
              IN /\ wreq'[w] \in live
                 /\ \A y \in live : prio[y] <= prio[wreq'[w]]]_vars

\* The first request was taken while the later one is still queued: its
\* priority was raised above the other's after both were enqueued.
C5_Witness ==
    \E w \in Workers :
        /\ wpc[w] = "computing"
        /\ wreq[w] = 0
        /\ 1 \in SeqToSet(queue)
        /\ prio[0] > prio[1]

\* C6 (as claimed): once the provider has been dropped no worker has failed
\* and no worker is blocked on the condition variable, which nothing will
\* signal again.
C6_WorkersTerminateCleanly ==
    mainPc = "dropped" => \A w \in Workers : wpc[w] \notin {"waiting", "panicked"}

\* C4: when no request is cancelled and the provider is not dropped, every
\* queued request is eventually handed to receive_all's callback, exactly
\* once, and nothing else is.
C4_AllDelivered ==
    /\ [](\A id \in DOMAIN received : received[id] = 1 /\ id < next)
    /\ \A id \in 0..(MaxQueued - 1) :
          [](id < next =>
                <>(\/ id \in DOMAIN received
                   \/ cancelled # {}
                   \/ mainPc \notin {"idle", "draining"}))

\* Every request was queued, none was cancelled, all were received.
C4_Witness ==
    /\ next = MaxQueued
    /\ cancelled = {}
    /\ DOMAIN received = 0..(MaxQueued - 1)
    /\ mainPc = "idle"

\* C11 (as claimed): after a worker thread has panicked the main thread
\* keeps running: it does not panic on the poisoned queue mutex.
C11_MainSurvivesWorkerPanic ==
    (\E w \in Workers : wpc[w] = "panicked")
        => mainPc \notin {"panic_queue", "panic_drop"}

RootsResident ==
    \A f \in Faces :
        /\ Root(f) \in DOMAIN tree
        /\ tree[Root(f)].kind = "WithGeometry"
        /\ \A id \in DOMAIN pending : pending[id] # Root(f)

\* C12: every face root is Resident in every reachable state: it is never
\* Pending and never the target of a pending-map entry, and no step leaves
\* the slot it holds in the free list: set_generator, the only operation
\* that releases it, installs a new Resident root before it returns.
C12_RootsStayResident ==
    /\ []RootsResident
    /\ [][\A f \in Faces :
              /\ tree[Root(f)].node_id \notin {free'[i] : i \in 1..Len(free')}
              /\ tree'[Root(f)].node_id \notin {free'[i] : i \in 1..Len(free')}]_vars

\* set_generator has replaced the roots of a renderer whose root had
\* Resident children: their slots are free and only the roots are left.
C12_Witness ==
    /\ DOMAIN tree = {Root(f) : f \in Faces}
    /\ RootsResident
    /\ Len(free) >= 2
    /\ queue = <<>>
    /\ chan = <<>>
    /\ mainPc = "idle"
    /\ \A w \in Workers : wpc[w] = "start"

IsResident(t, n) == t[n].kind = "WithGeometry"

\* C13 (as claimed): after every ensure_resident_patches call a node has
\* children if and only if it is Resident and within its level's split
\* distance of the camera of that call.
C13_ChildrenIffInRange ==
    (mainPc = "idle" /\ lastCam # NoCam) =>
        \A n \in DOMAIN tree :
            has_children(tree, n) <=> (IsResident(tree, n) /\ in_range(n, lastCam))

\* C13 (amended): when the residency traversal of a call ends, a node has
\* children if and only if it is Resident and within its level's split
\* distance of the camera; the drain that ends the call adds and removes no
\* node, so a node it promotes has no children until the next call; at all
\* times a node with children is Resident and in range of the last camera,
\* and its children are exactly four.
C13_ChildrenAfterTraversal ==
    /\ [](\A n \in DOMAIN tree :
            /\ (\E c \in Child : Kid(n, c) \in DOMAIN tree)
                   => (\A c \in Child : Kid(n, c) \in DOMAIN tree)
            /\ has_children(tree, n)
                   => (IsResident(tree, n) /\ in_range(n, lastCam)))
    /\ [][(mainPc = "idle" /\ mainPc' = "draining") =>
             \A n \in DOMAIN tree' :
                 has_children(tree', n)
                     <=> (IsResident(tree', n) /\ in_range(n, lastCam'))]_vars
    /\ [][mainPc = "draining" => DOMAIN tree' = DOMAIN tree]_vars

\* The call has returned and a node within split range, promoted by its
\* drain, is Resident without children.
C13_Witness ==
    /\ mainPc = "idle"
    /\ lastCam # NoCam
    /\ \E n \in DOMAIN tree :
          /\ IsResident(tree, n)
          /\ in_range(n, lastCam)
          /\ ~has_children(tree, n)
          /\ Level(n) = 1

Covers(c, p) ==
    IF c.part = Whole THEN c.node \in Prefixes(p)
    ELSE Kid(c.node, c.part) \in Prefixes(p)

\* C14: after selection every finest-level cell of the face is covered by
\* an emitted contribution (a Whole node or the quadrant Part containing
\* it) unless a Resident node the selector visited on the path from the
\* root to the cell was culled by the frustum or the horizon cone; and the
\* quadrant of every visited child that is Pending or out of range is drawn
\* from its parent, whole or as that quadrant's part.
C14_Coverage ==
    call.fn = "select" =>
        LET sel == call.sel
            root == RootOf(call.tree)
        IN /\ \A p \in {q \in PathsOfLen(SplitLen + 1) : q[1] = root[1]} :
                 \/ \E i \in 1..Len(sel.out) : Covers(sel.out[i], p)
                 \/ \E n \in Prefixes(p) : n \in sel.culled
           /\ \A k \in DOMAIN sel.results :
                 (k # root /\ sel.results[k] \in {"Pending", "OutOfRange"}) =>
                     \E i \in 1..Len(sel.out) :
                         /\ sel.out[i].node = Parent(k)
                         /\ sel.out[i].part \in {Whole, k[Len(k)]}

\* A parent fills in the quadrant of a Pending child with a Part while a
\* sibling of that child was selected.
C14_Witness ==
    /\ call.fn = "select"
    /\ \E i, j \in 1..Len(call.sel.out) :
          LET c == call.sel.out[i]
              d == call.sel.out[j]
          IN /\ c.part # Whole
             /\ call.tree[Kid(c.node, c.part)].kind = "Pending"
             /\ d.part = Whole
             /\ Len(d.node) > 1
             /\ Parent(d.node) = c.node

\* The frustum test the traversal made for a Pending node is the one of its
\* parent's bounding box: a Pending node has no geometry of its own.
SeenInFrustum(n) == Parent(n) \in lastCam.seen

FinerSeenCoarserUnseen(p1, p2) ==
    /\ Level(p1) > Level(p2)
    /\ SeenInFrustum(p1)
    /\ ~SeenInFrustum(p2)

\* C15 (as claimed): after a residency pass, a Pending node at a finer LOD
\* that is in the frustum holds a strictly lower priority value than a
\* Pending node at a coarser LOD that is out of the frustum.
C15_FinerInFrustumLower ==
    lastCam # NoCam =>
        \A p1, p2 \in PendingNodes :
            FinerSeenCoarserUnseen(p1, p2)
                => prio[tree[p1].id] < prio[tree[p2].id]

\* C15 (amended): after a residency pass, a Pending node at a finer LOD
\* that is in the frustum holds a strictly higher priority value than a
\* Pending node at a coarser LOD that is out of the frustum; the workers
\* take the highest value first.
C15_FinerInFrustumHigher ==
    lastCam # NoCam =>
        \A p1, p2 \in PendingNodes :
            FinerSeenCoarserUnseen(p1, p2)
                => prio[tree[p1].id] > prio[tree[p2].id]

\* Two such Pending nodes are live after a pass.
C15_Witness ==
    /\ lastCam # NoCam
    /\ \E p1, p2 \in PendingNodes : FinerSeenCoarserUnseen(p1, p2)

\* C16: receive_all does not wait for the workers: once entered it returns
\* even if no worker ever runs again; every item it takes from the channel
\* is handed to the callback exactly once, the callback runs for nothing
\* else, and the call returns only on an empty channel, without invoking
\* the callback, whether or not requests are still queued or computed.
C16_ReceiveAllNonBlocking ==
    /\ (mainPc = "draining") ~> (mainPc = "idle")
    /\ [][received' # received =>
             /\ mainPc = "draining"
             /\ chan # <<>>
             /\ chan' = Tail(chan)
             /\ received' = Bump(received, Head(chan))]_vars
    /\ [][(mainPc = "draining" /\ mainPc' = "idle") =>
             /\ chan = <<>>
             /\ received' = received]_vars

\* receive_all finds the channel empty while one request is queued and
\* another is being computed.
C16_Witness ==
    /\ mainPc = "draining"
    /\ chan = <<>>
    /\ queue # <<>>
    /\ \E w \in Workers : wpc[w] = "computing"

\* C17: acquire returns an id in [0, capacity) that was not allocated, the
\* most recently released one when the free list is non-empty and the next
\* never-used one otherwise; it returns None exactly when all capacity ids
\* are allocated, and then leaves len() and the free list unchanged; an id
\* given to release is returned by the next acquire.
C17_AcquireContract ==
    call.fn = "acquire" =>
        LET b == call.before
            now == [counter |-> counter, free |-> free]
        IN /\ call.id = -1 <=> Cardinality(Allocated(b)) = b.capacity
           /\ call.id # -1 =>
                 /\ call.id \in 0..(b.capacity - 1)
                 /\ call.id \notin Allocated(b)
                 /\ Allocated(now) = Allocated(b) \cup {call.id}
                 /\ ArenaLen(now) = ArenaLen(b) + 1
                 /\ call.id = IF Len(b.free) > 0 THEN b.free[Len(b.free)]
                              ELSE b.counter
           /\ call.id = -1 => (ArenaLen(now) = ArenaLen(b) /\ free = b.free)
           /\ call.prev.fn = "release" => call.id = call.prev.arg

\* An acquire hands back the id released just before it, from a free list
\* that held another id already.
C17_Witness ==
    /\ call.fn = "acquire"
    /\ call.prev.fn = "release"
    /\ call.id = call.prev.arg
    /\ Len(call.before.free) >= 2

\* C18: every contribution emitted by the selector, at every LOD level
\* including level 0, has a morph range (t0, t1) with t0 < t1.
C18_MorphRangeNonzero ==
    call.fn = "select" =>
        \A i \in 1..Len(call.sel.out) :
            call.sel.out[i].morph_range[1] < call.sel.out[i].morph_range[2]

\* C19: for a location l reached from a face root by repeated split and
\* each child c, split(c) has half l's size, l's level plus one and an
\* offset that is a multiple of the child's size; the four children's
\* squares do not overlap pairwise and their union is exactly l's square.
C19_SplitTiles ==
    call.fn = "split" =>
        LET l == call.loc
            k == call.out
        IN /\ 2 * k.size = l.size
           /\ k.lod_level = l.lod_level + 1
           /\ k.face = l.face
           /\ k.x % k.size = 0
           /\ k.y % k.size = 0
           /\ \A c, d \in Child :
                 c # d => Square(split(l, c)) \cap Square(split(l, d)) = {}
           /\ UNION {Square(split(l, c)) : c \in Child} = Square(l)

\* The bottom-right child of a location that is itself a bottom-right
\* child two levels below the root has been computed.
C19_Witness ==
    /\ call.fn = "split"
    /\ call.index = 3
    /\ call.loc.lod_level = 2
    /\ call.loc.x > 0
    /\ call.loc.y > 0
    /\ call.out.x = call.loc.x + call.out.size
    /\ call.out.y = call.loc.y + call.out.size

\* C20: for every cube coordinate with 0 <= x, y < size on each of the six
\* faces and every k with |k| <= size, add_dx(k) followed by add_dx(-k)
\* returns the starting coordinate, and so does add_dy(k) followed by
\* add_dy(-k).
C20_RoundTrip ==
    call.fn \in {"add_dx", "add_dy"} => call.back = call.coord

\* C21: for k emitted contributions, draw writes for each i < k a command i
\* with instance_count 1, base_instance i and base_vertex slot*V*V and an
\* instance i whose atlas layer is that slot; first_index/count are (0, n)
\* for a Whole contribution and (q*n/4, n/4) for the Part of child q; exactly
\* commands 0..k-1 are submitted.
C21_Packed ==
    LET k == Len(call.visible_nodes)
        n == Len(index_buffer)
        V == VERTICES_PER_PATCH
    IN /\ ~call.out.panicked
       /\ call.out.submitted = k
       /\ Len(call.out.commands) = k
       /\ Len(call.out.instances) = k
       /\ \A i \in 1..k :
             LET vn == call.visible_nodes[i]
                 slot == call.tree[vn.node].node_id
                 cmd == call.out.commands[i]
             IN /\ cmd.instance_count = 1
                /\ cmd.base_instance = i - 1
                /\ cmd.base_vertex = slot * V * V
                /\ call.out.instances[i].atlas_index = slot
                /\ vn.part = Whole => (cmd.first_index = 0 /\ cmd.count = n)
                /\ vn.part # Whole =>
                      /\ cmd.first_index = (vn.part * n) \div 4
                      /\ cmd.count = n \div 4

GridCells == (0..(VERTICES_PER_PATCH - 2)) \X (0..(VERTICES_PER_PATCH - 2))

\* The four corners of a grid cell, as vertex indices.
Corners(c) ==
    {(c[1] + dx) + (c[2] + dy) * VERTICES_PER_PATCH : dx, dy \in {0, 1}}

\* The triangles of block q of buffer b, each as its three indices.
BlockTriangles(b, q) ==
    LET len == Len(b) \div 4
    IN [j \in 1..(len \div 3) |->
           LET o == (q - 1) * len + 3 * (j - 1)
           IN {b[o + 1], b[o + 2], b[o + 3]}]

\* The cells of the quadrant PatchLocation::split gives child q.
QuadrantCells(q) ==
    LET whole == [face |-> 1, x |-> 0, y |-> 0,
                  size |-> VERTICES_PER_PATCH - 1, lod_level |-> 0]
    IN {<<s[2], s[3]>> : s \in Square(split(whole, q - 1))}

\* What is expected of an index buffer b.
IndexBufferOk(b) ==
    /\ Len(b) = (VERTICES_PER_PATCH - 1) * (VERTICES_PER_PATCH - 1) * 6
    /\ Len(b) % 12 = 0
    /\ \A i \in 1..Len(b) : b[i] < VERTICES_PER_PATCH * VERTICES_PER_PATCH
    /\ \A q \in 1..4 :
          LET T == BlockTriangles(b, q)
              Of(c) == {j \in DOMAIN T : T[j] \subseteq Corners(c)}
          IN /\ Len(T) = 2 * Cardinality(QuadrantCells(q))
             /\ \A c \in QuadrantCells(q) :
                   /\ Cardinality(Of(c)) = 2
                   /\ \A j \in Of(c) : Cardinality(T[j]) = 3
                   /\ UNION {T[j] : j \in Of(c)} = Corners(c)
                   /\ \A i, j \in Of(c) : i # j => T[i] # T[j]
    /\ \A c \in GridCells :
          Cardinality({q \in 1..4 :
              \E j \in DOMAIN BlockTriangles(b, q) :
                  BlockTriangles(b, q)[j] \subseteq Corners(c)}) = 1

\* C22: the index buffer holds (V-1)*(V-1)*6 indices in four equal
\* contiguous blocks in the order TL, TR, BL, BR; block q contains exactly
\* the two triangles of every grid cell in the sub-square PatchLocation::split
\* gives child q, each cell appears in exactly one block, and every index is
\* below V*V.
C22_IndexQuadrants ==
    (call.fn = "index_buffer" /\ call.done) =>
        /\ IndexBufferOk(call.indices)
        /\ call.indices = index_buffer

\* The buffer is complete: the last push was the bottom-right cell's.
C22_Witness ==
    /\ call.fn = "index_buffer"
    /\ call.done
    /\ call.q = 4
    /\ Len(call.indices) > 0

\* The vertex at the nearest grid point with both indices even.
EvenVertex(j) ==
    LET x == j % VERTICES_PER_PATCH
        y == j \div VERTICES_PER_PATCH
    IN (x - (x % 2)) + (y - (y % 2)) * VERTICES_PER_PATCH

\* C23: for every vertex at grid position (x, y) of a patch the stored
\* position_morph_target equals the stored position of the vertex at
\* (x - (x mod 2), y - (y mod 2)); the target's position has always been
\* written before it is copied.
C23_MorphTargetEven ==
    call.fn = "vertices" =>
        /\ ~call.readUninit
        /\ \A j \in VertexIds :
              j < call.i =>
                 /\ EvenVertex(j) \in call.written
                 /\ call.vertices[j].position_morph_target =
                        call.vertices[EvenVertex(j)].position
                 /\ call.vertices[j].position = call.positions[j]

\* A whole patch with distinct positions has been stored; its last-but-one
\* vertex of the second row morphs to a vertex other than itself.
C23_Witness ==
    /\ call.fn = "vertices"
    /\ call.i = VERTICES_PER_PATCH * VERTICES_PER_PATCH
    /\ \A j \in VertexIds : call.positions[j] = j
    /\ LET j == 2 * VERTICES_PER_PATCH - 2
       IN /\ call.vertices[j].position_morph_target # call.vertices[j].position
          /\ call.vertices[j].position_morph_target =
                 j - 1 - VERTICES_PER_PATCH

\* C24: whenever a worker reaches the pop after dropping the cancelled
\* requests the queue is non-empty, so the expectation never fails and the
\* queue mutex is never poisoned, for every interleaving of queue calls and
\* cancellations with worker dequeues.
C24_PopNeverEmpty ==
    /\ \A w \in Workers : wpc[w] = "pop" => queue # <<>>
    /\ ~poisoned

\* C25: under fair scheduling a Pending node whose request is never
\* cancelled eventually becomes Resident (its result reaches receive_all's
\* callback), whatever happens to other requests in the meantime: later
\* requests of any priority, cancellations of other requests.
C25_PendingBecomesResident ==
    \A id \in 0..(MaxStream - 1) :
        [](id < next => <>(id \in DOMAIN received \/ id \in cancelled))

\* The callback of receive_all runs on the result at the head of the
\* channel: it returns, or it panics.
Delivers ==
    /\ mainPc = "draining"
    /\ chan # <<>>
    /\ chan' = Tail(chan) \/ mainPc' = "panic_acquire"

\* What the claim expects of the delivery of a result whose id is a key of
\* the pending map.
Promoted ==
    LET id == Head(chan)
        n == pending[id]
        slot == tree'[n].node_id
    IN /\ tree'[n].kind = "WithGeometry"
       /\ slot \notin Allocated([counter |-> counter, free |-> free])
       /\ Allocated([counter |-> counter', free |-> free'])
              = Allocated([counter |-> counter, free |-> free]) \cup {slot}
       /\ tree[n].kind = "Pending"
       /\ ~has_children(tree', n)
       /\ pending' = RemoveKey(pending, id)
       /\ DOMAIN tree' = DOMAIN tree
       /\ \A m \in DOMAIN tree \ {n} : tree'[m] = tree[m]

\* C26: when receive_all delivers (id, geometry) and id is a key of the
\* pending map, exactly one new slot is acquired, the node the key refers to
\* changes from Pending to Resident holding that slot and still has no
\* children, and the key is removed from the map; no other node, key or slot
\* changes, and a node never goes from Resident back to Pending.
C26_DeliveryPromotes ==
    /\ [][(Delivers /\ Head(chan) \in DOMAIN pending) => Promoted]_vars
    /\ [][\A n \in DOMAIN tree \cap DOMAIN tree' :
             tree[n].kind = "WithGeometry" => tree'[n].kind = "WithGeometry"]_vars

Descendants(t, n) ==
    {d \in DOMAIN t : Len(d) > Len(n) /\ SubSeq(d, 1, Len(n)) = n}

\* The nodes the residency traversal for camera cam finds Resident and out
\* of split range: it reaches a node when all its ancestors are in range.
FoundOutOfRange(cam) ==
    {n \in DOMAIN tree :
        /\ tree[n].kind = "WithGeometry"
        /\ Level(n) < SplitLen
        /\ ~in_range(n, cam)
        /\ \A k \in 1..(Len(n) - 1) : in_range(SubSeq(n, 1, k), cam)}

\* C27: when the residency pass finds a Resident node farther from the
\* camera than its level's split distance, then after the merge the node has
\* no children, every former descendant that was Pending has its token
\* priority set to 0 and no entry in the pending map, every former descendant
\* that was Resident has had its slot released, and the node itself stays
\* Resident with its own slot still allocated.
C27_MergeCleansUp ==
    [][(mainPc = "idle" /\ mainPc' = "draining") =>
          \A n \in FoundOutOfRange(lastCam') :
              /\ n \in DOMAIN tree'
              /\ tree'[n] = tree[n]
              /\ ~has_children(tree', n)
              /\ tree[n].node_id \notin {free'[i] : i \in 1..Len(free')}
              /\ \A d \in Descendants(tree, n) :
                    /\ d \notin DOMAIN tree'
                    /\ tree[d].kind = "Pending" =>
                          /\ tree[d].id \notin DOMAIN pending'
                          /\ tree[d].id \in DOMAIN prio' => prio'[tree[d].id] = 0
                    /\ tree[d].kind = "WithGeometry" =>
                          tree[d].node_id \in {free'[i] : i \in 1..Len(free')}]_vars

\* The traversal has just merged a level-1 node: the root is in range and
\* keeps its children, the slot of a Resident grandchild is back in the free
\* list and cancelled requests of Pending grandchildren are still queued.
C27_Witness ==
    /\ mainPc = "draining"
    /\ Len(lastCam.focus) = 1
    /\ \E n \in DOMAIN tree :
          /\ Level(n) = 1
          /\ tree[n].kind = "WithGeometry"
    /\ \A n \in DOMAIN tree : Level(n) <= 1
    /\ free # <<>>
    /\ \E i \in 1..Len(queue) : prio[queue[i]] = 0

\* C28: priority 0 is reserved for cancellation: the residency pass never
\* stores 0 into the token of a live Pending node (every value it stores,
\* lod_level + 1 at request time and lod_level with or without the
\* in-frustum bit afterwards, is at least 1), and a token holds 0 only after
\* its node has been destroyed by merge/remove_face.
C28_ZeroMeansCancelled ==
    /\ \A n \in PendingNodes :
          /\ tree[n].id \in DOMAIN prio
          /\ prio[tree[n].id] >= 1
          /\ prio[tree[n].id] \in {Level(n) + 1, Level(n), BitOr512(Level(n))}
    /\ \A id \in DOMAIN prio :
          prio[id] = 0 =>
              /\ id \notin DOMAIN pending
              /\ \A n \in PendingNodes : tree[n].id # id

\* A live Pending node out of the frustum holds the lowest live priority, 1,
\* while the cancelled request of a destroyed node is still queued with 0.
C28_Witness ==
    /\ \E n \in PendingNodes : prio[tree[n].id] = 1 /\ Level(n) = 1
    /\ \E i \in 1..Len(queue) : prio[queue[i]] = 0

\* C29: the residency pass never gives children to a node whose LOD level is
\* greater than or equal to max_lod_level, so in every reachable state no
\* quadtree node exists at a level greater than max_lod_level.
C29_NoNodeBeyondMaxLod ==
    \A n \in DOMAIN tree :
        /\ has_children(tree, n) => Level(n) < max_lod_level
        /\ Level(n) <= max_lod_level

\* C30: the split_distances table built by Renderer::new is a strictly
\* decreasing geometric sequence with ratio 2 (every element is exactly twice
\* its successor), and index 0 holds the distance of the finest-detail
\* level, the highest lod_level the table is read at.
C30_GeometricRatio2 ==
    (call.fn = "split_distances" /\ call.reversed) =>
        LET v == call.split_distances
            finest == Len(v) - 1
        IN /\ \A i \in 1..(Len(v) - 1) : v[i] > v[i + 1]
           /\ \A i \in 1..(Len(v) - 1) : v[i] = 2 * v[i + 1]
           /\ v[1] = v[finest + 1]

\* The results the children of n returned to it, when n recursed into them.
KidResults(n) == [c \in Child |-> call.sel.results[Kid(n, c)]]

\* n took the split branch and at least one of its children was selected.
SplitWithSelected(n) ==
    /\ n \in DOMAIN call.sel.results
    /\ has_children(call.tree, n)
    /\ Kid(n, 0) \in DOMAIN call.sel.results
    /\ \E c \in Child : KidResults(n)[c] = "Selected"

\* The contributions emitted from node n with the given part.
Emitted(n, part) ==
    {i \in 1..Len(call.sel.out) :
        call.sel.out[i].node = n /\ call.sel.out[i].part = part}

InSplitBranch(n) ==
    /\ n \in DOMAIN call.sel.results
    /\ call.tree[n].kind = "WithGeometry"
    /\ n \notin call.sel.culled
    /\ Level(n) < SplitLen
    /\ call.view[n].range = 2

\* The results n's children returned; Undefined for all when n has none.
ChildrenSelectionResults(n) ==
    IF has_children(call.tree, n) THEN KidResults(n)
    ELSE [c \in Child |-> "Undefined"]

NoChildSelected(n) ==
    \A c \in Child : ChildrenSelectionResults(n)[c] # "Selected"

RECURSIVE FrustumContainment(_)
FrustumContainment(n) ==
    IF Len(n) > 1 /\ FrustumContainment(Parent(n)) = "Inside" THEN "Inside"
    ELSE call.view[n].frustum

\* A visited Resident node classified Outside the frustum or contained in
\* the horizon cone.
Culled(n) ==
    /\ n \in DOMAIN call.sel.results
    /\ call.tree[n].kind = "WithGeometry"
    /\ FrustumContainment(n) = "Outside" \/ call.view[n].cone

\* C33: a Resident node classified Outside the frustum or contained in the
\* horizon cone returns OutOfFrustum, none of its descendants is visited and
\* no contribution is emitted from the node or from a descendant; when the
\* face root is culled the selector emits nothing for the face.
C33_CulledEmitsNothing ==
    call.fn = "select" =>
        /\ \A n \in DOMAIN call.tree : Culled(n) =>
              /\ call.sel.results[n] = "OutOfFrustum"
              /\ \A m \in DOMAIN call.sel.results : n \in Prefixes(m) => m = n
              /\ \A i \in 1..Len(call.sel.out) :
                    n \notin Prefixes(call.sel.out[i].node)
        /\ Culled(RootOf(call.tree)) => call.sel.out = <<>>

\* A Resident node with children is contained in the horizon cone while
\* the face still emits contributions.
C33_Witness ==
    /\ call.fn = "select"
    /\ \E n \in DOMAIN call.tree :
          /\ Culled(n)
          /\ Len(n) > 1
          /\ call.view[n].cone
          /\ has_children(call.tree, n)
          /\ call.sel.out # <<>>

\* The face region a contribution draws, named by the node that tiles it:
\* the node itself for Whole, the child's square for a Part.
RegionOf(c) == IF c.part = Whole THEN c.node ELSE Kid(c.node, c.part)

\* Two squares of the quadtree overlap when one contains the other.
Overlap(a, b) == a \in Prefixes(b) \/ b \in Prefixes(a)

\* C34: the contributions emitted in one selection cover pairwise disjoint
\* face regions: no contribution is emitted twice, a node is never emitted
\* both Whole and as a Part, a Part for child c is never emitted together
\* with a contribution from c's subtree, and a node is never emitted Whole
\* when one of its descendants has emitted.
C34_NoRegionTwice ==
    call.fn = "select" =>
        LET out == call.sel.out
        IN /\ \A i, j \in 1..Len(out) :
                 i # j => ~Overlap(RegionOf(out[i]), RegionOf(out[j]))
           /\ \A i, j \in 1..Len(out) :
                 (i # j /\ out[i].part = Whole) =>
                     out[i].node \notin Prefixes(out[j].node)
           /\ \A i, j \in 1..Len(out) :
                 out[i].part # Whole =>
                     Kid(out[i].node, out[i].part) \notin Prefixes(out[j].node)

\* A node emits Parts beside a selected child that itself emits a Part and
\* a Whole grandchild: contributions from three levels in one selection.
C34_Witness ==
    /\ call.fn = "select"
    /\ \E i, j, k \in 1..Len(call.sel.out) :
          LET out == call.sel.out
          IN /\ out[i].part # Whole /\ Len(out[i].node) = 1
             /\ out[j].part # Whole /\ Len(out[j].node) = 2
             /\ out[k].part = Whole /\ Len(out[k].node) = 3

\* The contributions of the frame refer to Resident nodes whose slots the
\* arena has handed out and not taken back.
ContributionsResident ==
    \A i \in 1..Len(call'.visible_nodes) :
        LET n == call'.visible_nodes[i].node
        IN /\ n \in DOMAIN tree'
           /\ tree'[n].kind = "WithGeometry"
           /\ tree'[n].node_id \in
                  Allocated([counter |-> counter', free |-> free'])

\* C35: from the return of ensure_resident_patches until the draw is
\* submitted, and in the selection and packing of draw itself, no slot is
\* acquired or released, no node changes state and the pending map does not
\* change; every contribution of the frame refers to a node that is
\* Resident, never a Pending one, with its slot allocated.
C35_DrawOnlyReads ==
    [][(mainPc = "idle" /\ call.fn = "ensure_resident_patches") =>
          /\ UNCHANGED <<tree, pending, counter, free>>
          /\ call'.fn = "frame" => ContributionsResident]_vars

\* A frame was drawn and submitted in which a Resident node fills in the
\* quadrant of a child that is Pending.
C35_Witness ==
    /\ call.fn = "frame"
    /\ ~call.panicked
    /\ call.submitted > 1
    /\ \E i \in 1..Len(call.visible_nodes) :
          LET c == call.visible_nodes[i]
          IN /\ c.part # Whole
             /\ tree[Kid(c.node, c.part)].kind = "Pending"
             /\ tree[Kid(c.node, c.part)].id \in DOMAIN pending

C37_MorphRangeTenth ==
    call.fn = "select" =>
        \A i \in 1..Len(call.sel.out) :
            LET c == call.sel.out[i]
                L == c.lod_level
                t1 == IF L > 0 THEN split_distances[L] ELSE split_distances[L + 1]
            IN /\ c.morph_range[2] = 10 * t1
               /\ 10 * c.morph_range[1] = 9 * c.morph_range[2]

\* C38: the request ids queue returns are pairwise distinct over all calls,
\* concurrent ones and calls on different provider instances included: no
\* two returned ids are equal, an id a call has drawn and not yet returned
\* differs from every other, and no id is on the queues of two instances.
C38_IdsDistinct ==
    call.fn = "queue" =>
        /\ \A i, j \in 1..Len(call.returned) :
              i # j => call.returned[i].id # call.returned[j].id
        /\ \A t \in 1..IdThreads : call.pc[t] = "fetched" =>
              /\ \A i \in 1..Len(call.returned) :
                    call.returned[i].id # call.id[t]
              /\ \A u \in 1..IdThreads :
                    (u # t /\ call.pc[u] = "fetched") => call.id[u] # call.id[t]
        /\ \A p, q \in Providers : p # q =>
              SeqToSet(call.queued[p]) \cap SeqToSet(call.queued[q]) = {}

\* Two threads drew their ids before either returned, on the replaced
\* provider and on its replacement, and the later id was returned first.
C38_Witness ==
    /\ call.fn = "queue"
    /\ \E i, j \in 1..Len(call.returned) :
          /\ i < j
          /\ call.returned[i].id > call.returned[j].id
          /\ call.returned[i].thread # call.returned[j].thread
          /\ call.returned[i].inst = "threadpool_new"
          /\ call.returned[j].inst = "threadpool_old"

\* The ids of the requests of the nodes that are Pending.
PendingIds == {tree[n].id : n \in PendingNodes}

\* The token priorities set_generator leaves behind when called in the
\* current state.
TokensAfterReset ==
    ResetFaces([tree |-> tree, pending |-> pending, prio |-> prio,
                counter |-> counter, free |-> free, panicked |-> FALSE], 1).prio

\* The request ids a result can still be delivered for: those in the
\* channel, on the queue or with a worker.
InFlight ==
    SeqToSet(chan) \cup SeqToSet(queue)
        \cup {wreq[w] : w \in {v \in Workers : wreq[v] # -1}}

\* set_generator has returned and, when called, found Resident nodes below
\* a root and Pending nodes; since then the new provider has delivered a
\* result that was applied to the new trees.
C39_Witness ==
    /\ call.fn = "set_generator"
    /\ call.first >= 4
    /\ counter > NumFaces
    /\ lastDrain = "applied"
    /\ \E n \in Resident : Level(n) = 1

\* C39: when set_generator returns, in whatever state it was called, every
\* face root is Resident without children, the pending map is empty,
\* exactly one slot per face is allocated, the token of every node that was
\* Pending holds priority 0 and nothing of the replaced provider is in
\* flight; from then on every request id in flight or in the pending map
\* was handed out after the replacement, so no result of the replaced
\* provider is ever applied to the new trees.
C39_SetGeneratorResets ==
    /\ [](call.fn = "set_generator" =>
             \A id \in InFlight \cup DOMAIN pending : id >= call.first)
    /\ [][(SetGeneratorNoted /\ mainPc' = "idle") =>
             /\ DOMAIN tree' = {Root(f) : f \in Faces}
             /\ \A f \in Faces : tree'[Root(f)].kind = "WithGeometry"
             /\ \A f, g \in Faces :
                   f # g => tree'[Root(f)].node_id # tree'[Root(g)].node_id
             /\ pending' = <<>>
             /\ Allocated([counter |-> counter', free |-> free'])
                    = {tree'[Root(f)].node_id : f \in Faces}
             /\ \A id \in PendingIds :
                   /\ TokensAfterReset[id] = 0
                   /\ id \in DOMAIN prio' => prio'[id] = 0
             /\ chan' = <<>> /\ queue' = <<>>
             /\ \A w \in Workers : wreq'[w] = -1]_vars

\* Corner c is strictly on the negative side of plane p.
Behind(p, c) == call.dets[p][c] < 0

\* C40: the classification of a box against the frustum is Outside if and
\* only if some plane has all eight corners strictly on its negative side,
\* Inside if and only if no corner is on the negative side of any plane, and
\* Intersects otherwise.
C40_ClassifyBySigns ==
    call.fn = "classify" =>
        LET outside == \E p \in 1..NumPlanes : \A c \in 1..NumCorners : Behind(p, c)
            inside == \A p \in 1..NumPlanes : \A c \in 1..NumCorners : ~Behind(p, c)
        IN /\ call.result = "Outside" <=> outside
           /\ call.result = "Inside" <=> inside
           /\ call.result = "Intersects" <=> (~outside /\ ~inside)

\* A box with every corner behind or on the last plane, one of them on it,
\* and wholly in front of or on the others: Intersects, not Outside.
C40_Witness ==
    /\ call.fn = "classify"
    /\ call.result = "Intersects"
    /\ \A c \in 1..NumCorners : call.dets[NumPlanes][c] <= 0
    /\ \E c \in 1..NumCorners : call.dets[NumPlanes][c] = 0
    /\ \E c \in 1..NumCorners : Behind(NumPlanes, c)
    /\ \A p \in 1..(NumPlanes - 1) : \A c \in 1..NumCorners : ~Behind(p, c)

====
